---- MODULE Spec2Model ----
(***************************************************************************)
(* A model of pigeon-hole: the key-value cache (pkg/key_value/models.go),  *)
(* the permission evaluator (pkg/users) and the callers' goroutines.       *)
(*                                                                         *)
(* Every goroutine that calls into the cache is a thread of the model.     *)
(* A call is cut into steps at the places where the Go code takes a lock;  *)
(* a write to the map is a window that opens in one step and commits in    *)
(* the next, so that accesses made without a common lock can overlap it.   *)
(***************************************************************************)
EXTENDS Integers, FiniteSets, Sequences, TLC

\* ------------------------------------------------------------------ bounds

\* Number of goroutines calling into the cache.
NumThreads == 2

\* Number of calls made in one concurrent run.
MaxCalls == 3

\* Number of calls made in one sequential run.
MaxSeqCalls == 3

\* Number of calls made in one run of concurrent inserts and deletes.
MaxDelCalls == 4

Threads == 1..NumThreads

Keys == {"k1", "k2"}

\* Two payloads of different lengths.
Payloads == {"p1", "p2"}

PayloadLen(p) == IF p = "p1" THEN 1 ELSE 2

\* A []byte is a slice header: a pointer to the bytes and a length.
Bytes(p) == [ptr |-> p, len |-> PayloadLen(p)]

NilBytes == [ptr |-> "nil", len |-> 0]

\* ------------------------------------------------------------- permissions

Permissions(s, i, u, d) == [Select |-> s, Insert |-> i, Update |-> u, Delete |-> d]

ReadOnlyPermissions == Permissions(TRUE, FALSE, FALSE, FALSE)

NoPermissions == Permissions(FALSE, FALSE, FALSE, FALSE)

FullPermissions == Permissions(TRUE, TRUE, TRUE, TRUE)

\* StandardUser without the read permission on all keys.
StandardUserOwnedOnly == [Owned |-> FullPermissions, All |-> NoPermissions]

StandardUser == [Owned |-> FullPermissions, All |-> ReadOnlyPermissions]

RestrictedUser == [Owned |-> FullPermissions, All |-> NoPermissions]

\* ReadOnlyUser with the read permission given on all keys, as StandardUser has.
ReadOnlyUserAll == [Owned |-> ReadOnlyPermissions, All |-> ReadOnlyPermissions]

ReadOnlyUser == [Owned |-> ReadOnlyPermissions, All |-> NoPermissions]

AdminUser == [Owned |-> FullPermissions, All |-> FullPermissions]

AllPermissions == [Select : BOOLEAN, Insert : BOOLEAN, Update : BOOLEAN, Delete : BOOLEAN]

AllPrivileges == [Owned : AllPermissions, All : AllPermissions]

CanSelect(u, isOwner) == u.Privileges.All.Select \/ (isOwner /\ u.Privileges.Owned.Select)

\* CanInsert reading the owned permission of another action.
CanInsertByUpdate(u, isOwner) == u.Privileges.All.Insert \/ (isOwner /\ u.Privileges.Owned.Update)

CanInsert(u, isOwner) == u.Privileges.All.Insert \/ (isOwner /\ u.Privileges.Owned.Insert)

CanUpdate(u, isOwner) == u.Privileges.All.Update \/ (isOwner /\ u.Privileges.Owned.Update)

\* CanDelete leaving out the permission on all keys.
CanDeleteOwned(u, isOwner) == isOwner /\ u.Privileges.Owned.Delete

CanDelete(u, isOwner) == u.Privileges.All.Delete \/ (isOwner /\ u.Privileges.Owned.Delete)

\* ------------------------------------------------------------------- users

\* strings.ToLower on the e-mail addresses that occur.
ToLower(s) == IF s = "Bob@Test.com" THEN "bob@test.com" ELSE s

\* UserWithUuid keeping the e-mail as it is given.
UserWithUuidAsGiven(name, email, privileges) ==
    [Name |-> name, Email |-> email, Privileges |-> privileges]

UserWithUuid(name, email, privileges) ==
    [Name |-> name, Email |-> ToLower(email), Privileges |-> privileges]

NewUser(name, email, privileges) == UserWithUuid(name, email, privileges)

\* The User records that exist, by address.  Records 1 to 4 are those of the
\* package's test; record 5 is what registering bob@test.com again makes: a
\* new User record with the same normalized e-mail.
UserIds == 1..5

User(i) ==
    CASE i = 1 -> NewUser("Dave", "dave@test.com", AdminUser)
      [] i = 2 -> NewUser("Steve", "steve@test.com", StandardUser)
      [] i = 3 -> NewUser("Bob", "bob@test.com", RestrictedUser)
      [] i = 4 -> NewUser("John", "john@test.com", ReadOnlyUser)
      [] i = 5 -> NewUser("Bob", "Bob@Test.com", RestrictedUser)

\* A *string is nil or the address of a field of one User record.
Nil == <<0, "nil">>

\* &user.Email
AddrEmail(i) == <<i, "Email">>

\* &user.Name
AddrName(i) == <<i, "Name">>

\* *p, for p the address of an Email field
Deref(p) == User(p[1]).Email

\* ----------------------------------------------------------------- records

ZeroTime == 0

ZeroDelivery ==
    [Value |-> NilBytes, CreatedAt |-> ZeroTime, Ownership |-> [Email |-> Nil, Name |-> Nil]]

ZeroEntry == [Delivery |-> ZeroDelivery, lock |-> 0]

NoCall == [id |-> 0, op |-> "none", key |-> "none", value |-> "none", user |-> 0, owner |-> 0, putErr |-> "none"]

Idle == [pc |-> "idle", call |-> NoCall, delivery |-> ZeroDelivery, entry |-> ZeroEntry]

NoRet == [call |-> NoCall, err |-> "none", delivery |-> ZeroDelivery, n |-> 0, isOwner |-> FALSE]

NoPerm == [privileges |-> AdminUser, isOwner |-> FALSE, done |-> FALSE,
           res |-> NoPermissions]

LockIds == 1..Cardinality(Keys)

VARIABLES
    Contents,   \* kvc.Contents: the map from key to KeyValueEntry
    lock,       \* kvc.lock: the table-wide sync.RWMutex
    entryLock,  \* the RWMutex objects the entries point to, by identity
    th,         \* each goroutine's position and locals
    ret,        \* what each goroutine's last call returned
    clock,      \* time.Now()
    calls,      \* number of calls made
    fatal,      \* the Go runtime stopped the process (fatal error)
    net,        \* history: successful inserts minus successful deletes, per key
    lastWrite,  \* history: the last successful Put/Update/Delete of each key
    perm        \* the permission evaluator's inputs and outputs

VARIABLES
    authManager, \* the AuthManager: Name, Timestamp, Users, Options
    ulLock,      \* ul.lock: the registry's sync.RWMutex
    tmLock,      \* tm.lock: the token manager's sync.RWMutex
    tokens,      \* authManager.Tokens.tokens: the map from token to TokenData
    file,        \* the user list file on disk
    ath,         \* each request goroutine's position in a handler, and its locals
    aret,        \* what each goroutine's last request returned
    acalls,      \* number of requests made
    drawn,       \* number of identifiers uuid.New() has drawn
    issued,      \* history: every token CreateToken stored
    exported     \* history: the registry as it was when the file was last written

\* The store's variables but the clock, and the registry's and the token
\* manager's variables.
store == <<Contents, lock, entryLock, th, ret, calls, fatal, net, lastWrite, perm>>

auth == <<authManager, ulLock, tmLock, tokens, file, ath, aret, acalls, drawn, issued, exported>>

vars == <<Contents, lock, entryLock, th, ret, clock, calls, fatal, net, lastWrite, perm, auth>>

NoWrite == [op |-> "none", value |-> "none", at |-> ZeroTime, user |-> 0, owner |-> 0]

NewCache == [k \in {} |-> ZeroEntry]

\* --------------------------------------------- users, digests and tokens

\* Requests made to the registry and the token manager in one behaviour.
MaxAuthCalls == 4

\* Requests made to the registry in one behaviour with every input.
MaxRegCalls == 4

\* Calls of the table beside the requests about tokens.
MaxTokStoreCalls == 2

\* Requests about tokens beside the calls of the table.
MaxTokStoreRequests == 4

\* The clock stops being advanced by the passing of time alone here.
MaxTime == 5

\* userOptions.TokenExpiration, in ticks of the clock.
TokenExpiration == 2

\* The e-mail addresses of requests: two spellings of one address and another.
Emails == {"bob@test.com", "Bob@Test.com", "steve@test.com"}

Names == {"Bob", "Rob"}

\* Strings as sequences of characters; one password contains the separator
\* genHashedPass joins with.
Passwords == {<<"a">>, <<"a", "|", "b">>}

\* Values of the --salt option of a run of the service.
Salts == {<<"c">>, <<"b", "|", "c">>}

GetPrivilegesByType(userType) ==
    CASE userType = "admin" -> [ok |-> TRUE, privileges |-> AdminUser]
      [] userType = "standard" -> [ok |-> TRUE, privileges |-> StandardUser]
      [] userType = "restricted" -> [ok |-> TRUE, privileges |-> RestrictedUser]
      [] OTHER -> [ok |-> FALSE,
                   privileges |-> [Owned |-> NoPermissions, All |-> NoPermissions]]

UserOptions(salt) == [Salt |-> salt, TokenExpiration |-> TokenExpiration]

\* uuid.String(): hexadecimal digits and hyphens, never the separator.
UuidString(uuid) == <<uuid>>

\* strings.Join(elems, "|") of three strings.
Join(a, b, c) == a \o <<"|">> \o b \o <<"|">> \o c

\* sha256: different inputs are taken to have different sums.
Sha256(bytes) == <<"sha256", bytes>>

genHashedPass(uuid, password, options) ==
    Sha256(Join(UuidString(uuid), password, options.Salt))

\* users.User{}: the zero User.
ZeroUser ==
    [Uuid |-> 0, Name |-> "", Email |-> "", HashedPass |-> <<>>,
     Privileges |-> [Owned |-> NoPermissions, All |-> NoPermissions]]

\* NewUser(name, email, privileges) with the identifier uuid.New() drew, and
\* SetPassword on it.
SetPassword(uuid, user, password, options) ==
    [Uuid |-> uuid, Name |-> user.Name, Email |-> user.Email,
     HashedPass |-> genHashedPass(uuid, password, options),
     Privileges |-> user.Privileges]

\* CheckPassword accepting the digest of the password under any salt.
CheckPasswordAnySalt(u, password, options) ==
    \E salt \in Salts :
        u.HashedPass = genHashedPass(u.Uuid, password, [options EXCEPT !.Salt = salt])

CheckPassword(u, password, options) ==
    u.HashedPass = genHashedPass(u.Uuid, password, options)

\* A map with no keys.
EmptyMap == [k \in {} |-> 0]

NewTokenManager == EmptyMap

ZeroTokenData == [Token |-> 0, User |-> ZeroUser, Expiry |-> ZeroTime]

NewAuthManager(name, options, now) ==
    [Name |-> name, Timestamp |-> now, Users |-> EmptyMap, Options |-> options]

NoFile == [exists |-> FALSE]

NoRequest == [op |-> "none", header |-> <<>>, email |-> "", password |-> <<>>, token |-> 0,
              user |-> ZeroUser]

AuthIdle == [pc |-> "idle", req |-> NoRequest]

NoAuthRet == [req |-> NoRequest, err |-> "none", data |-> ZeroTokenData, user |-> ZeroUser]

\* The service as main starts it with no user list file: ImportFromOrNew
\* makes a new AuthManager.
InitAuth ==
    /\ authManager = NewAuthManager("Global User List", UserOptions(<<"c">>), 1)
    /\ ulLock = [writer |-> 0, readers |-> {}]
    /\ tmLock = [writer |-> 0, readers |-> {}]
    /\ tokens = NewTokenManager
    /\ file = NoFile
    /\ ath = [t \in Threads |-> AuthIdle]
    /\ aret = [t \in Threads |-> NoAuthRet]
    /\ acalls = 0
    /\ drawn = 0
    /\ issued = EmptyMap
    /\ exported = NoFile

Init ==
    /\ Contents = NewCache
    /\ lock = [writer |-> 0, readers |-> {}]
    /\ entryLock = [i \in LockIds |-> 0]
    /\ th = [t \in Threads |-> Idle]
    /\ ret = [t \in Threads |-> NoRet]
    /\ clock = 1
    /\ calls = 0
    /\ fatal = FALSE
    /\ net = [k \in Keys |-> 0]
    /\ lastWrite = [k \in Keys |-> NoWrite]
    /\ perm = NoPerm
    /\ InitAuth

\* ------------------------------------------------------------- map access

\* A goroutine between the start and the end of a write to kvc.Contents.
InWindow(s) == th[s].pc \in {"PutWrite", "DeleteWrite", "LockAndDoWrite"}

Writers(t) == {s \in Threads \ {t} : InWindow(s)}

NotFound == [ok |-> FALSE, entry |-> ZeroEntry]

\* found, ok := kvc.Contents[key], with no write in progress.
Lookup(key) ==
    IF key \in DOMAIN Contents THEN [ok |-> TRUE, entry |-> Contents[key]] ELSE NotFound

\* The RWMutex a new entry gets: an object no live entry points to.
NewLock == CHOOSE i \in LockIds : \A k \in DOMAIN Contents : Contents[k].lock # i

\* The slot of writer s's key once its write has ended.
After(s) ==
    CASE th[s].pc = "PutWrite" ->
            [ok |-> TRUE, entry |-> [Delivery |-> th[s].delivery, lock |-> NewLock]]
      [] th[s].pc = "DeleteWrite" -> NotFound
      [] th[s].pc = "LockAndDoWrite" -> [ok |-> TRUE, entry |-> th[s].entry]

\* What a read that overlaps a write of the same slot can return: the slot is
\* several machine words, and each word read is the old or the new one.
Mix(a, b) ==
    LET both == {a, b} IN
    {IF ~o.ok THEN NotFound
     ELSE [ok |-> TRUE,
           entry |-> [Delivery |->
                         [Value |-> [ptr |-> p.entry.Delivery.Value.ptr,
                                     len |-> l.entry.Delivery.Value.len],
                          CreatedAt |-> c.entry.Delivery.CreatedAt,
                          Ownership |-> [Email |-> e.entry.Delivery.Ownership.Email,
                                         Name |-> n.entry.Delivery.Ownership.Name]],
                      lock |-> IF a.ok THEN a.entry.lock ELSE b.entry.lock]]
     : o \in both, p \in both, l \in both, c \in both, e \in both, n \in both}

\* kvc.Contents[key] read by goroutine t: the results the read can have.
MapRead(t, key) ==
    IF \E s \in Writers(t) : th[s].call.key = key
    THEN LET s == CHOOSE s \in Writers(t) : th[s].call.key = key
         IN  Mix(Lookup(key), After(s))
    ELSE {Lookup(key)}

\* The runtime's check of the map's "writing" flag: an access that overlaps
\* another goroutine's write may end the process with a fatal error.
MayFatal(t) == IF Writers(t) # {} THEN {TRUE, FALSE} ELSE {FALSE}

\* ----------------------------------------------------------------- returns

Fatal ==
    /\ fatal' = TRUE
    /\ UNCHANGED <<Contents, lock, entryLock, th, ret, clock, net, lastWrite, perm, auth>>

Result(call, err, delivery, n, isOwner) ==
    [call |-> call, err |-> err, delivery |-> delivery, n |-> n, isOwner |-> isOwner]

\* The call of goroutine t returns.
Return(t, call, err, delivery, n, isOwner) ==
    /\ ret' = [ret EXCEPT ![t] = Result(call, err, delivery, n, isOwner)]
    /\ th' = [th EXCEPT ![t] = Idle]

\* Goroutine t goes on to pc with its locals set.
Goto(t, pc, call, delivery, entry) ==
    /\ th' = [th EXCEPT ![t] = [pc |-> pc, call |-> call, delivery |-> delivery, entry |-> entry]]
    /\ ret' = [ret EXCEPT ![t] = NoRet]

\* The goroutine of a request for a key is in its handler, which has not
\* returned yet.
Handling(t) == ath[t].pc \in {"Handler", "Select", "Timeout"} /\ ret[t] = NoRet

\* Goroutine t is in no call, and in no request or in the handler of a request
\* for a key, and may make one more call.
CanCall(t, N) ==
    /\ ~fatal
    /\ th[t].pc = "idle"
    /\ ath[t].pc = "idle" \/ Handling(t)
    /\ calls < N

At(t, pc) == ~fatal /\ th[t].pc = pc

\* -------------------------------------------------------------------- Put

\* PutOrUpdateValue returning the error of its insert step, with no update.
PutFailedNoFallback(t, call, err) == Return(t, call, err, ZeroDelivery, 0, FALSE)

\* PutOrUpdate / PutOrUpdateValue: "if err := kvc.Put...; err != nil" goes on
\* to the update, whatever the error (kept in putErr); every other caller
\* returns the error.
PutFailed(t, call, err) ==
    IF call.op = "PutOrUpdateValue"
    THEN Goto(t, "LockAndDo", [call EXCEPT !.putErr = err], ZeroDelivery, ZeroEntry)
    ELSE Return(t, call, err, ZeroDelivery, 0, FALSE)

\* A caller's goroutine calls Put(key, KeyValueDelivery{Value: value}).
CallPut(t, K, N) ==
    /\ CanCall(t, N)
    /\ \E key \in K, value \in Payloads :
          Goto(t, "Put", [id |-> calls + 1, op |-> "Put", key |-> key, value |-> value, user |-> 0, owner |-> 0, putErr |-> "none"],
               [ZeroDelivery EXCEPT !.Value = Bytes(value)], ZeroEntry)
    /\ calls' = calls + 1
    /\ UNCHANGED <<Contents, lock, entryLock, clock, fatal, net, lastWrite, perm, auth>>

\* PutValueWithOwner up to its call of Put; PutValue is the case owner = user.
PutValueWithOwnerBody(t, call) ==
    LET user == User(call.user)
        owner == User(call.owner)
    IN  IF user.Email = "" \/ ~CanInsert(user, owner.Email = user.Email)
        THEN /\ PutFailed(t, call, "ErrNotPermitted")
             /\ UNCHANGED clock
        ELSE /\ Goto(t, "Put", call,
                     [Value |-> Bytes(call.value), CreatedAt |-> clock,
                      Ownership |-> [Email |-> AddrEmail(call.owner),
                                     Name |-> AddrName(call.owner)]],
                     ZeroEntry)
             /\ clock' = clock + 1

PutValueWithOwner(t, U, K, N) ==
    /\ CanCall(t, N)
    /\ \E key \in K, value \in Payloads, owner \in U, user \in U :
          PutValueWithOwnerBody(t, [id |-> calls + 1, op |-> "PutValueWithOwner", key |-> key, value |-> value,
                                    user |-> user, owner |-> owner, putErr |-> "none"])
    /\ calls' = calls + 1
    /\ UNCHANGED <<Contents, lock, entryLock, fatal, net, lastWrite, perm, auth>>

\* Put without kvc.lock.Lock(): the existence check and the start of the write
\* under no lock.
PutNoLock(t) ==
    /\ At(t, "Put")
    /\ IF th[t].call.key \in DOMAIN Contents
       THEN PutFailed(t, th[t].call, "ErrKeyExists")
       ELSE Goto(t, "PutWrite", th[t].call, th[t].delivery, ZeroEntry)
    /\ UNCHANGED <<Contents, lock, entryLock, clock, calls, fatal, net, lastWrite, perm, auth>>

\* Put without the existence check: the write replaces what the key holds.
PutNoCheck(t) ==
    /\ At(t, "Put")
    /\ lock.writer = 0 /\ lock.readers = {}
    /\ Goto(t, "PutWrite", th[t].call, th[t].delivery, ZeroEntry)
    /\ lock' = [lock EXCEPT !.writer = t]
    /\ UNCHANGED <<Contents, entryLock, clock, calls, fatal, net, lastWrite, perm, auth>>

\* Put returning ErrKeyExists with no kvc.lock.Unlock().
PutKeepsLockOnError(t) ==
    /\ At(t, "Put")
    /\ lock.writer = 0 /\ lock.readers = {}
    /\ IF th[t].call.key \in DOMAIN Contents
       THEN PutFailed(t, th[t].call, "ErrKeyExists")
       ELSE Goto(t, "PutWrite", th[t].call, th[t].delivery, ZeroEntry)
    /\ lock' = [lock EXCEPT !.writer = t]
    /\ UNCHANGED <<Contents, entryLock, clock, calls, fatal, net, lastWrite, perm, auth>>

\* Put: kvc.lock.Lock(), the existence check, and the start of the write.
Put(t) ==
    /\ At(t, "Put")
    /\ lock.writer = 0 /\ lock.readers = {}
    /\ IF th[t].call.key \in DOMAIN Contents
       THEN /\ PutFailed(t, th[t].call, "ErrKeyExists")
            /\ UNCHANGED lock
       ELSE /\ Goto(t, "PutWrite", th[t].call, th[t].delivery, ZeroEntry)
            /\ lock' = [lock EXCEPT !.writer = t]
    /\ UNCHANGED <<Contents, entryLock, clock, calls, fatal, net, lastWrite, perm, auth>>

\* Put: the write to the map ends, the deferred Unlock runs, Put returns nil.
PutWrite(t) ==
    /\ At(t, "PutWrite")
    /\ Contents' = (th[t].call.key :> [Delivery |-> th[t].delivery, lock |-> NewLock]) @@ Contents
    /\ lock' = [lock EXCEPT !.writer = 0]
    /\ Return(t, th[t].call, "nil", ZeroDelivery, 0, FALSE)
    /\ net' = [net EXCEPT ![th[t].call.key] = @ + 1]
    /\ lastWrite' = [lastWrite EXCEPT ![th[t].call.key] =
                        [op |-> "Put", value |-> th[t].call.value, at |-> th[t].delivery.CreatedAt,
                         user |-> th[t].call.user, owner |-> th[t].call.owner]]
    /\ UNCHANGED <<entryLock, clock, calls, fatal, perm, auth>>

\* ------------------------------------------------------------ Get, Length

\* Get: a read of the map under no lock.
Get(t, key) == MapRead(t, key)

\* GetValue taking the requester for the owner when the entry's owner name,
\* not its owner e-mail, points into the requester's record.
GetValueByName(t, U, K, N) ==
    /\ CanCall(t, N)
    /\ \E key \in K, user \in U, crash \in MayFatal(t) : \E found \in Get(t, key) :
          LET call == [id |-> calls + 1, op |-> "GetValue", key |-> key, value |-> "none", user |-> user, owner |-> 0, putErr |-> "none"]
              delivery == found.entry.Delivery
              isOwner == delivery.Ownership.Name = AddrEmail(user)
          IN  IF crash THEN Fatal
              ELSE /\ IF ~found.ok
                      THEN Return(t, call, "ErrKeyNotFound", ZeroDelivery, 0, FALSE)
                      ELSE IF CanSelect(User(user), isOwner)
                           THEN Return(t, call, "nil", delivery, 0, isOwner)
                           ELSE Return(t, call, "ErrNotPermitted", ZeroDelivery, 0, isOwner)
                   /\ UNCHANGED <<Contents, lock, entryLock, clock, fatal, net, lastWrite, perm, auth>>
    /\ calls' = calls + 1

\* GetValue making its permission check before it looks at Get's error.
GetValuePermFirst(t, U, K, N) ==
    /\ CanCall(t, N)
    /\ \E key \in K, user \in U, crash \in MayFatal(t) : \E found \in Get(t, key) :
          LET call == [id |-> calls + 1, op |-> "GetValue", key |-> key, value |-> "none", user |-> user, owner |-> 0, putErr |-> "none"]
              delivery == found.entry.Delivery
              isOwner == delivery.Ownership.Email = AddrEmail(user)
          IN  IF crash THEN Fatal
              ELSE /\ IF ~CanSelect(User(user), isOwner)
                      THEN Return(t, call, "ErrNotPermitted", ZeroDelivery, 0, isOwner)
                      ELSE IF ~found.ok
                           THEN Return(t, call, "ErrKeyNotFound", ZeroDelivery, 0, FALSE)
                           ELSE Return(t, call, "nil", delivery, 0, isOwner)
                   /\ UNCHANGED <<Contents, lock, entryLock, clock, fatal, net, lastWrite, perm, auth>>
    /\ calls' = calls + 1

\* GetValue: Get, then the permission check on the copy.
GetValue(t, U, K, N) ==
    /\ CanCall(t, N)
    /\ \E key \in K, user \in U, crash \in MayFatal(t) : \E found \in Get(t, key) :
          LET call == [id |-> calls + 1, op |-> "GetValue", key |-> key, value |-> "none", user |-> user, owner |-> 0, putErr |-> "none"]
              delivery == found.entry.Delivery
              isOwner == delivery.Ownership.Email = AddrEmail(user)
          IN  IF crash THEN Fatal
              ELSE /\ IF ~found.ok
                      THEN Return(t, call, "ErrKeyNotFound", ZeroDelivery, 0, FALSE)
                      ELSE IF CanSelect(User(user), isOwner)
                           THEN Return(t, call, "nil", delivery, 0, isOwner)
                           ELSE Return(t, call, "ErrNotPermitted", ZeroDelivery, 0, isOwner)
                   /\ UNCHANGED <<Contents, lock, entryLock, clock, fatal, net, lastWrite, perm, auth>>
    /\ calls' = calls + 1

\* Length: len(kvc.Contents) under no lock; one word, read before or after an
\* overlapping write's change of the count.
Length(t, N) ==
    /\ CanCall(t, N)
    /\ \E n \in {Cardinality(DOMAIN Contents)} \cup
                {Cardinality(DOMAIN Contents) + (IF th[s].pc = "PutWrite" THEN 1 ELSE -1) :
                    s \in {s \in Writers(t) : th[s].pc \in {"PutWrite", "DeleteWrite"}}} :
          Return(t, [NoCall EXCEPT !.id = calls + 1, !.op = "Length"], "nil", ZeroDelivery, n, FALSE)
    /\ calls' = calls + 1
    /\ UNCHANGED <<Contents, lock, entryLock, clock, fatal, net, lastWrite, perm, auth>>

\* ------------------------------------------------- LockAndDo, UpdateValue

UpdateValue(t, U, K, N) ==
    /\ CanCall(t, N)
    /\ \E key \in K, value \in Payloads, user \in U :
          Goto(t, "LockAndDo",
               [id |-> calls + 1, op |-> "UpdateValue", key |-> key, value |-> value, user |-> user, owner |-> 0, putErr |-> "none"],
               ZeroDelivery, ZeroEntry)
    /\ calls' = calls + 1
    /\ UNCHANGED <<Contents, lock, entryLock, clock, fatal, net, lastWrite, perm, auth>>

\* PutOrUpdateValue: PutValue, and on an error of it UpdateValue.
PutOrUpdateValue(t, U, K, N) ==
    /\ CanCall(t, N)
    /\ \E key \in K, value \in Payloads, user \in U :
          PutValueWithOwnerBody(t, [id |-> calls + 1, op |-> "PutOrUpdateValue", key |-> key, value |-> value,
                                    user |-> user, owner |-> user, putErr |-> "none"])
    /\ calls' = calls + 1
    /\ UNCHANGED <<Contents, lock, entryLock, fatal, net, lastWrite, perm, auth>>

\* LockAndDo looking the key up without kvc.lock.RLock().
LockAndDoNoRLock(t) ==
    /\ At(t, "LockAndDo")
    /\ \E crash \in MayFatal(t), found \in MapRead(t, th[t].call.key) :
          IF crash THEN Fatal
          ELSE /\ IF ~found.ok
                  THEN Return(t, th[t].call, "ErrKeyNotFound", ZeroDelivery, 0, FALSE)
                  ELSE Goto(t, "LockAndDoOperation", th[t].call, ZeroDelivery, found.entry)
               /\ UNCHANGED <<Contents, lock, entryLock, clock, fatal, net, lastWrite, perm, auth>>
    /\ UNCHANGED calls

\* LockAndDo: kvc.lock.RLock() and the lookup of the key; the entry is copied
\* out of the map here, before the entry's lock is taken.
LockAndDo(t) ==
    /\ At(t, "LockAndDo")
    /\ lock.writer = 0
    /\ \E crash \in MayFatal(t), found \in MapRead(t, th[t].call.key) :
          IF crash THEN Fatal
          ELSE /\ IF ~found.ok
                  THEN /\ Return(t, th[t].call, "ErrKeyNotFound", ZeroDelivery, 0, FALSE)
                       /\ UNCHANGED lock
                  ELSE /\ Goto(t, "LockAndDoOperation", th[t].call, ZeroDelivery, found.entry)
                       /\ lock' = [lock EXCEPT !.readers = @ \cup {t}]
               /\ UNCHANGED <<Contents, entryLock, clock, fatal, net, lastWrite, perm, auth>>
    /\ UNCHANGED calls

\* The callback of UpdateValue making the requester the owner of what it
\* updates.
UpdateValueTakesOwnership(call, delivery) ==
    LET owner == delivery.Ownership
        isOwner == owner.Email = AddrEmail(call.user)
    IN  IF owner.Email = Nil \/ CanUpdate(User(call.user), isOwner)
        THEN [err |-> "nil", isOwner |-> isOwner,
              delivery |-> [Value |-> Bytes(call.value), CreatedAt |-> clock,
                            Ownership |-> [Email |-> AddrEmail(call.user),
                                           Name |-> AddrName(call.user)]]]
        ELSE [err |-> "ErrNotPermitted", isOwner |-> isOwner, delivery |-> delivery]

\* The callback UpdateValue hands to LockAndDo, on the copy of the delivery:
\* the error it returns and the copy as it leaves it.
UpdateValueOperation(call, delivery) ==
    LET owner == delivery.Ownership
        isOwner == owner.Email = AddrEmail(call.user)
    IN  IF owner.Email = Nil \/ CanUpdate(User(call.user), isOwner)
        THEN [err |-> "nil", isOwner |-> isOwner,
              delivery |-> [delivery EXCEPT !.Value = Bytes(call.value), !.CreatedAt = clock]]
        ELSE [err |-> "ErrNotPermitted", isOwner |-> isOwner, delivery |-> delivery]

\* LockAndDo storing the new value in the map before its callback has checked
\* the requester: a refused update has already replaced the value.
LockAndDoOperationWriteFirst(t) ==
    /\ At(t, "LockAndDoOperation")
    /\ entryLock[th[t].entry.lock] = 0
    /\ LET done == UpdateValueOperation(th[t].call, th[t].entry.Delivery)
       IN  IF done.err # "nil"
           THEN /\ Return(t, th[t].call, done.err, ZeroDelivery, 0, done.isOwner)
                /\ lock' = [lock EXCEPT !.readers = @ \ {t}]
                /\ Contents' = (th[t].call.key :>
                                  [th[t].entry EXCEPT !.Delivery.Value = Bytes(th[t].call.value)])
                               @@ Contents
                /\ UNCHANGED <<entryLock, clock>>
           ELSE /\ Goto(t, "LockAndDoWrite", th[t].call, ZeroDelivery,
                        [th[t].entry EXCEPT !.Delivery = done.delivery])
                /\ entryLock' = [entryLock EXCEPT ![th[t].entry.lock] = t]
                /\ clock' = clock + 1
                /\ UNCHANGED <<lock, Contents>>
    /\ UNCHANGED <<calls, fatal, net, lastWrite, perm, auth>>

\* LockAndDo running its callback without entry.lock.Lock().
LockAndDoOperationNoEntryLock(t) ==
    /\ At(t, "LockAndDoOperation")
    /\ LET done == UpdateValueOperation(th[t].call, th[t].entry.Delivery)
       IN  IF done.err # "nil"
           THEN /\ Return(t, th[t].call, done.err, ZeroDelivery, 0, done.isOwner)
                /\ lock' = [lock EXCEPT !.readers = @ \ {t}]
                /\ UNCHANGED <<entryLock, clock>>
           ELSE /\ Goto(t, "LockAndDoWrite", th[t].call, ZeroDelivery,
                        [th[t].entry EXCEPT !.Delivery = done.delivery])
                /\ clock' = clock + 1
                /\ UNCHANGED <<lock, entryLock>>
    /\ UNCHANGED <<Contents, calls, fatal, net, lastWrite, perm, auth>>

\* LockAndDo: entry.lock.Lock() and the callback on the copy; on an error both
\* deferred unlocks run and nothing is written back.
LockAndDoOperation(t) ==
    /\ At(t, "LockAndDoOperation")
    /\ entryLock[th[t].entry.lock] = 0
    /\ LET done == UpdateValueOperation(th[t].call, th[t].entry.Delivery)
       IN  IF done.err # "nil"
           THEN /\ Return(t, th[t].call, done.err, ZeroDelivery, 0, done.isOwner)
                /\ lock' = [lock EXCEPT !.readers = @ \ {t}]
                /\ UNCHANGED <<entryLock, clock>>
           ELSE /\ Goto(t, "LockAndDoWrite", th[t].call, ZeroDelivery,
                        [th[t].entry EXCEPT !.Delivery = done.delivery])
                /\ entryLock' = [entryLock EXCEPT ![th[t].entry.lock] = t]
                /\ clock' = clock + 1
                /\ UNCHANGED lock
    /\ UNCHANGED <<Contents, calls, fatal, net, lastWrite, perm, auth>>

\* LockAndDo: kvc.Contents[key] = entry under the shared table lock, then the
\* deferred unlocks; two such writes of different keys can overlap.
LockAndDoWrite(t) ==
    /\ At(t, "LockAndDoWrite")
    /\ \E crash \in MayFatal(t) :
          IF crash THEN Fatal
          ELSE /\ Contents' = (th[t].call.key :> th[t].entry) @@ Contents
               /\ entryLock' = [entryLock EXCEPT ![th[t].entry.lock] = 0]
               /\ lock' = [lock EXCEPT !.readers = @ \ {t}]
               /\ Return(t, th[t].call, "nil", ZeroDelivery, 0, FALSE)
               /\ lastWrite' = [lastWrite EXCEPT ![th[t].call.key] =
                                   [op |-> "Update", value |-> th[t].call.value,
                                    at |-> th[t].entry.Delivery.CreatedAt,
                                    user |-> th[t].call.user,
                                    owner |-> lastWrite[th[t].call.key].owner]]
               /\ UNCHANGED <<clock, fatal, net, perm, auth>>
    /\ UNCHANGED calls

\* ----------------------------------------------------- DeleteValue, Delete

\* DeleteValue up to its call of Delete: Get under no lock, then the
\* permission check on the copy.
DeleteValue(t, U, K, N) ==
    /\ CanCall(t, N)
    /\ \E key \in K, user \in U, crash \in MayFatal(t) : \E found \in Get(t, key) :
          LET call == [id |-> calls + 1, op |-> "DeleteValue", key |-> key, value |-> "none", user |-> user, owner |-> 0, putErr |-> "none"]
              delivery == found.entry.Delivery
              owner == delivery.Ownership
              isOwner == owner.Email = AddrEmail(user)
          IN  IF crash THEN Fatal
              ELSE /\ IF ~found.ok
                      THEN Return(t, call, "ErrKeyNotFound", ZeroDelivery, 0, FALSE)
                      ELSE IF owner.Email = Nil \/ CanDelete(User(user), isOwner)
                           THEN Goto(t, "Delete", call, delivery, ZeroEntry)
                           ELSE Return(t, call, "ErrNotPermitted", ZeroDelivery, 0, isOwner)
                   /\ UNCHANGED <<Contents, lock, entryLock, clock, fatal, net, lastWrite, perm, auth>>
    /\ calls' = calls + 1

\* Delete without the existence check: delete() of an absent key is a no-op
\* and Delete returns nil.
DeleteNoCheck(t) ==
    /\ At(t, "Delete")
    /\ lock.writer = 0 /\ lock.readers = {}
    /\ Goto(t, "DeleteWrite", th[t].call, th[t].delivery, ZeroEntry)
    /\ lock' = [lock EXCEPT !.writer = t]
    /\ UNCHANGED <<Contents, entryLock, clock, calls, fatal, net, lastWrite, perm, auth>>

\* Delete: kvc.lock.Lock(), the existence check, and the start of the delete.
Delete(t) ==
    /\ At(t, "Delete")
    /\ lock.writer = 0 /\ lock.readers = {}
    /\ IF th[t].call.key \notin DOMAIN Contents
       THEN /\ Return(t, th[t].call, "ErrKeyNotFound", ZeroDelivery, 0, FALSE)
            /\ UNCHANGED lock
       ELSE /\ Goto(t, "DeleteWrite", th[t].call, th[t].delivery, ZeroEntry)
            /\ lock' = [lock EXCEPT !.writer = t]
    /\ UNCHANGED <<Contents, entryLock, clock, calls, fatal, net, lastWrite, perm, auth>>

\* Delete: the delete from the map ends, the deferred Unlock runs; DeleteValue
\* returns the copy its Get made.
DeleteWrite(t) ==
    /\ At(t, "DeleteWrite")
    /\ Contents' = [k \in DOMAIN Contents \ {th[t].call.key} |-> Contents[k]]
    /\ lock' = [lock EXCEPT !.writer = 0]
    /\ Return(t, th[t].call, "nil", th[t].delivery, 0, FALSE)
    /\ net' = [net EXCEPT ![th[t].call.key] = @ - 1]
    /\ lastWrite' = [lastWrite EXCEPT ![th[t].call.key] =
                        [op |-> "Delete", value |-> "none", at |-> ZeroTime, user |-> th[t].call.user,
                         owner |-> 0]]
    /\ UNCHANGED <<entryLock, clock, calls, fatal, perm, auth>>

\* ------------------------------------------------------ registry requests

AuthReturn(t, req, err, data, user) ==
    /\ aret' = [aret EXCEPT ![t] = [req |-> req, err |-> err, data |-> data, user |-> user]]
    /\ ath' = [ath EXCEPT ![t] = AuthIdle]

AuthGoto(t, pc, req) ==
    /\ ath' = [ath EXCEPT ![t] = [pc |-> pc, req |-> req]]
    /\ aret' = [aret EXCEPT ![t] = NoAuthRet]

CanRequest(t, I) == ath[t].pc = "idle" /\ th[t].pc = "idle" /\ acalls < I.N

\* The handler AddUser up to its call of authManager.AddUser: the privileges
\* of the type, uuid.New() in NewUser, SetPassword with the current options.
AddUserRequest(t, I) ==
    /\ CanRequest(t, I)
    /\ \E name \in I.Names, email \in I.Emails, password \in I.Passwords, userType \in I.UserTypes :
          LET found == GetPrivilegesByType(userType)
              req == [op |-> "AddUser", header |-> <<>>, email |-> email, password |-> password, token |-> 0,
                      user |-> SetPassword(drawn + 1, NewUser(name, email, found.privileges),
                                           password, authManager.Options)]
          IN  IF ~found.ok
              THEN /\ AuthReturn(t, [req EXCEPT !.user = ZeroUser], "ErrUnknownUserType",
                                 ZeroTokenData, ZeroUser)
                   /\ UNCHANGED drawn
              ELSE /\ AuthGoto(t, "AddUser", req)
                   /\ drawn' = drawn + 1
    /\ acalls' = acalls + 1
    /\ UNCHANGED <<authManager, ulLock, tmLock, tokens, file, issued, exported, clock, store>>

\* AddUser with no ul.lock.Lock(): the existence check and the start of the
\* write under no lock.
AddUserNoLock(t) ==
    /\ ath[t].pc = "AddUser"
    /\ LET user == ath[t].req.user
       IN  IF user.Email \in DOMAIN authManager.Users
           THEN AuthReturn(t, ath[t].req, "ErrUserAlreadyExists", ZeroTokenData,
                           authManager.Users[user.Email])
           ELSE AuthGoto(t, "AddUserWrite", ath[t].req)
    /\ UNCHANGED <<authManager, ulLock, tmLock, tokens, file, acalls, drawn, issued, exported, clock, store>>

\* AuthManager.AddUser: ul.lock.Lock(), the existence check under the key
\* user.Email, and the start of the write.
AddUser(t) ==
    /\ ath[t].pc = "AddUser"
    /\ ulLock.writer = 0 /\ ulLock.readers = {}
    /\ LET user == ath[t].req.user
       IN  IF user.Email \in DOMAIN authManager.Users
           THEN /\ AuthReturn(t, ath[t].req, "ErrUserAlreadyExists", ZeroTokenData,
                              authManager.Users[user.Email])
                /\ UNCHANGED ulLock
           ELSE /\ AuthGoto(t, "AddUserWrite", ath[t].req)
                /\ ulLock' = [ulLock EXCEPT !.writer = t]
    /\ UNCHANGED <<tmLock, authManager, tokens, file, acalls, drawn, issued, exported, clock, store>>

\* AuthManager.AddUser: the write ends and the deferred Unlock runs; the
\* handler goes on to CreateToken.
AddUserWrite(t) ==
    /\ ath[t].pc = "AddUserWrite"
    /\ authManager' = [authManager EXCEPT
                          !.Users = (ath[t].req.user.Email :> ath[t].req.user) @@ @]
    /\ ulLock' = [ulLock EXCEPT !.writer = 0]
    /\ AuthGoto(t, "CreateToken", ath[t].req)
    /\ UNCHANGED <<tmLock, tokens, file, acalls, drawn, issued, exported, clock, store>>

\* GenerateToken: 64 bytes of crypto/rand; a value drawn is taken never to
\* have been drawn before.
GenerateToken == Cardinality(DOMAIN issued) + 1

\* TokenManager.CreateToken for the handlers AddUser and LoginUser:
\* GenerateToken, which can fail, then tm.lock.Lock().
CreateToken(t) ==
    /\ ath[t].pc = "CreateToken"
    /\ \E generated \in BOOLEAN :
          IF ~generated
          THEN /\ AuthReturn(t, ath[t].req, "ErrTokenGeneration", ZeroTokenData, ZeroUser)
               /\ UNCHANGED tmLock
          ELSE /\ tmLock.writer = 0 /\ tmLock.readers = {}
               /\ tmLock' = [tmLock EXCEPT !.writer = t]
               /\ AuthGoto(t, "CreateTokenWrite", ath[t].req)
    /\ UNCHANGED <<authManager, ulLock, tokens, file, acalls, drawn, issued, exported, clock, store>>

\* CreateToken storing the time of the call as the expiry.
CreateTokenNoExpiration(t) ==
    /\ ath[t].pc = "CreateTokenWrite"
    /\ LET tokenData == [Token |-> GenerateToken, User |-> ath[t].req.user,
                         Expiry |-> clock]
       IN  /\ tokens' = (tokenData.Token :> tokenData) @@ tokens
           /\ issued' = (tokenData.Token :> [data |-> tokenData, at |-> clock,
                                             revoked |-> FALSE]) @@ issued
           /\ AuthReturn(t, ath[t].req, "nil", tokenData, ath[t].req.user)
    /\ tmLock' = [tmLock EXCEPT !.writer = 0]
    /\ UNCHANGED <<authManager, ulLock, file, acalls, drawn, exported, clock, store>>

\* TokenManager.CreateToken: the token's data goes into the map with the
\* expiry tm.expiration from now, the deferred Unlock runs, and the handler
\* answers with the token.
CreateTokenWrite(t) ==
    /\ ath[t].pc = "CreateTokenWrite"
    /\ LET tokenData == [Token |-> GenerateToken, User |-> ath[t].req.user,
                         Expiry |-> clock + authManager.Options.TokenExpiration]
       IN  /\ tokens' = (tokenData.Token :> tokenData) @@ tokens
           /\ issued' = (tokenData.Token :> [data |-> tokenData, at |-> clock,
                                             revoked |-> FALSE]) @@ issued
           /\ AuthReturn(t, ath[t].req, "nil", tokenData, ath[t].req.user)
    /\ tmLock' = [tmLock EXCEPT !.writer = 0]
    /\ UNCHANGED <<authManager, ulLock, file, acalls, drawn, exported, clock, store>>

\* The handler LoginUser up to CreateToken: GetUser, then CheckPassword with
\* the current options.
LoginUser(t, I) ==
    /\ CanRequest(t, I)
    /\ ulLock.writer = 0
    /\ \E email \in I.Emails, password \in I.Passwords :
          LET req == [op |-> "LoginUser", header |-> <<>>, email |-> email, password |-> password,
                      token |-> 0, user |-> ZeroUser]
              key == ToLower(email)
          IN  IF key \notin DOMAIN authManager.Users
              THEN AuthReturn(t, req, "ErrUserNotFound", ZeroTokenData, ZeroUser)
              ELSE IF ~CheckPassword(authManager.Users[key], password, authManager.Options)
                   THEN AuthReturn(t, req, "ErrAuthenticationFailed", ZeroTokenData, ZeroUser)
                   ELSE AuthGoto(t, "CreateToken", [req EXCEPT !.user = authManager.Users[key]])
    /\ acalls' = acalls + 1
    /\ UNCHANGED <<authManager, ulLock, tmLock, tokens, file, drawn, issued, exported, clock, store>>

\* AuthManager.GetUser.
GetUser(t, I) ==
    /\ CanRequest(t, I)
    /\ ulLock.writer = 0
    /\ \E email \in I.Emails :
          LET req == [NoRequest EXCEPT !.op = "GetUser", !.email = email]
              key == ToLower(email)
          IN  IF key \notin DOMAIN authManager.Users
              THEN AuthReturn(t, req, "ErrUserNotFound", ZeroTokenData, ZeroUser)
              ELSE AuthReturn(t, req, "nil", ZeroTokenData, authManager.Users[key])
    /\ acalls' = acalls + 1
    /\ UNCHANGED <<authManager, ulLock, tmLock, tokens, file, drawn, issued, exported, clock, store>>

\* RemoveUser removing the tokens of the user it removes.
RemoveUserWithTokens(t, I) ==
    /\ CanRequest(t, I)
    /\ ulLock.writer = 0 /\ ulLock.readers = {}
    /\ \E email \in I.Emails :
          LET req == [NoRequest EXCEPT !.op = "RemoveUser", !.email = email]
              key == ToLower(email)
          IN  IF key \notin DOMAIN authManager.Users
              THEN /\ AuthReturn(t, req, "ErrUserNotFound", ZeroTokenData, ZeroUser)
                   /\ UNCHANGED <<authManager, tokens>>
              ELSE /\ AuthReturn(t, req, "nil", ZeroTokenData, authManager.Users[key])
                   /\ authManager' = [authManager EXCEPT
                                         !.Users = [k \in DOMAIN @ \ {key} |-> @[k]]]
                   /\ tokens' = [k \in {j \in DOMAIN tokens :
                                           tokens[j].User # authManager.Users[key]}
                                   |-> tokens[k]]
    /\ acalls' = acalls + 1
    /\ UNCHANGED <<ulLock, tmLock, file, drawn, issued, exported, clock, store>>

\* AuthManager.RemoveUser, called by the handler RemoveUser.
RemoveUser(t, I) ==
    /\ CanRequest(t, I)
    /\ ulLock.writer = 0 /\ ulLock.readers = {}
    /\ \E email \in I.Emails :
          LET req == [NoRequest EXCEPT !.op = "RemoveUser", !.email = email]
              key == ToLower(email)
          IN  IF key \notin DOMAIN authManager.Users
              THEN /\ AuthReturn(t, req, "ErrUserNotFound", ZeroTokenData, ZeroUser)
                   /\ UNCHANGED authManager
              ELSE /\ AuthReturn(t, req, "nil", ZeroTokenData, authManager.Users[key])
                   /\ authManager' = [authManager EXCEPT
                                         !.Users = [k \in DOMAIN @ \ {key} |-> @[k]]]
    /\ acalls' = acalls + 1
    /\ UNCHANGED <<ulLock, tmLock, tokens, file, drawn, issued, exported, clock, store>>

\* --------------------------------------------------------- token requests

\* The tokens of requests: every token CreateToken can have made, and more.
TokenIds == 1..MaxAuthCalls

\* history: Revoke was called on a token of the table.
Revoked(token) ==
    [k \in DOMAIN issued |-> IF k = token THEN [issued[k] EXCEPT !.revoked = TRUE]
                                          ELSE issued[k]]

\* GetToken refusing a token from its expiry on.
GetTokenExpiredAtExpiry(t, I) ==
    /\ CanRequest(t, I)
    /\ tmLock.writer = 0
    /\ \E token \in I.Tokens :
          LET req == [NoRequest EXCEPT !.op = "GetToken", !.token = token]
          IN  IF token \in DOMAIN tokens
              THEN IF tokens[token].Expiry <= clock
                   THEN AuthReturn(t, req, "ErrTokenExpired", ZeroTokenData, ZeroUser)
                   ELSE AuthReturn(t, req, "nil", tokens[token], tokens[token].User)
              ELSE AuthReturn(t, req, "ErrTokenInvalid", ZeroTokenData, ZeroUser)
    /\ acalls' = acalls + 1
    /\ UNCHANGED <<authManager, ulLock, tmLock, tokens, file, drawn, issued, exported, clock, store>>

\* GetToken removing the token it finds expired.
GetTokenPurging(t, I) ==
    /\ CanRequest(t, I)
    /\ tmLock.writer = 0
    /\ \E token \in I.Tokens :
          LET req == [NoRequest EXCEPT !.op = "GetToken", !.token = token]
          IN  IF token \in DOMAIN tokens
              THEN IF tokens[token].Expiry < clock
                   THEN /\ AuthReturn(t, req, "ErrTokenExpired", ZeroTokenData, ZeroUser)
                        /\ tokens' = [k \in DOMAIN tokens \ {token} |-> tokens[k]]
                   ELSE /\ AuthReturn(t, req, "nil", tokens[token], tokens[token].User)
                        /\ UNCHANGED tokens
              ELSE /\ AuthReturn(t, req, "ErrTokenInvalid", ZeroTokenData, ZeroUser)
                   /\ UNCHANGED tokens
    /\ acalls' = acalls + 1
    /\ UNCHANGED <<authManager, ulLock, tmLock, file, drawn, issued, exported, clock, store>>

\* TokenManager.GetToken, under tm.lock.RLock(): data.Expiry.Before(time.Now())
\* is the test for expiry.
GetToken(t, I) ==
    /\ CanRequest(t, I)
    /\ tmLock.writer = 0
    /\ \E token \in I.Tokens :
          LET req == [NoRequest EXCEPT !.op = "GetToken", !.token = token]
          IN  IF token \in DOMAIN tokens
              THEN IF tokens[token].Expiry < clock
                   THEN AuthReturn(t, req, "ErrTokenExpired", ZeroTokenData, ZeroUser)
                   ELSE AuthReturn(t, req, "nil", tokens[token], tokens[token].User)
              ELSE AuthReturn(t, req, "ErrTokenInvalid", ZeroTokenData, ZeroUser)
    /\ acalls' = acalls + 1
    /\ UNCHANGED <<authManager, ulLock, tmLock, tokens, file, drawn, issued, exported, clock, store>>

\* DeleteToken refusing to remove an expired token.
DeleteTokenLiveOnly(t, I) ==
    /\ CanRequest(t, I)
    /\ tmLock.writer = 0 /\ tmLock.readers = {}
    /\ \E token \in I.Tokens :
          LET req == [NoRequest EXCEPT !.op = "DeleteToken", !.token = token]
          IN  IF token \in DOMAIN tokens /\ ~(tokens[token].Expiry < clock)
              THEN /\ tokens' = [k \in DOMAIN tokens \ {token} |-> tokens[k]]
                   /\ issued' = Revoked(token)
                   /\ AuthReturn(t, req, "nil", ZeroTokenData, ZeroUser)
              ELSE /\ AuthReturn(t, req, "ErrTokenInvalid", ZeroTokenData, ZeroUser)
                   /\ UNCHANGED <<tokens, issued>>
    /\ acalls' = acalls + 1
    /\ UNCHANGED <<authManager, ulLock, tmLock, file, drawn, exported, clock, store>>

\* TokenManager.DeleteToken, under tm.lock.Lock(); the handler LogoutUser
\* calls it with the token of the request.
DeleteToken(t, I) ==
    /\ CanRequest(t, I)
    /\ tmLock.writer = 0 /\ tmLock.readers = {}
    /\ \E token \in I.Tokens :
          LET req == [NoRequest EXCEPT !.op = "DeleteToken", !.token = token]
          IN  IF token \in DOMAIN tokens
              THEN /\ tokens' = [k \in DOMAIN tokens \ {token} |-> tokens[k]]
                   /\ issued' = Revoked(token)
                   /\ AuthReturn(t, req, "nil", ZeroTokenData, ZeroUser)
              ELSE /\ AuthReturn(t, req, "ErrTokenInvalid", ZeroTokenData, ZeroUser)
                   /\ UNCHANGED <<tokens, issued>>
    /\ acalls' = acalls + 1
    /\ UNCHANGED <<authManager, ulLock, tmLock, file, drawn, exported, clock, store>>

\* Time passes.
Tick(I) ==
    /\ clock < I.MaxTime
    /\ clock' = clock + 1
    /\ UNCHANGED <<store, auth>>

\* ------------------------------------------------------- user list file

\* encoding/json of a time.Time: RFC 3339 with nanoseconds; ul.Timestamp is in
\* UTC with no monotonic reading, so parsing gives the instant back.
MarshalTime(time) == <<"RFC3339Nano", time>>

UnmarshalTime(text) == text[2]

\* encoding/json of a []byte: base64.
MarshalBytes(bytes) == <<"base64", bytes>>

UnmarshalBytes(text) == text[2]

\* encoding/json of a uuid.UUID: its String(), parsed back.
UnmarshalUuid(text) == text[1]

MarshalUser(u) ==
    [uuid |-> UuidString(u.Uuid), name |-> u.Name, email |-> u.Email,
     hashedPass |-> MarshalBytes(u.HashedPass), privileges |-> u.Privileges]

\* The User read back with no digest, as if hashedPass were not written.
UnmarshalUserWithoutDigest(j) ==
    [Uuid |-> UnmarshalUuid(j.uuid), Name |-> j.name, Email |-> j.email,
     HashedPass |-> <<>>, Privileges |-> j.privileges]

UnmarshalUser(j) ==
    [Uuid |-> UnmarshalUuid(j.uuid), Name |-> j.name, Email |-> j.email,
     HashedPass |-> UnmarshalBytes(j.hashedPass), Privileges |-> j.privileges]

\* json.MarshalIndent(ul): Tokens, Options and lock are not written.
MarshalIndent(ul) ==
    [exists |-> TRUE, name |-> ul.Name, timestamp |-> MarshalTime(ul.Timestamp),
     users |-> [k \in DOMAIN ul.Users |-> MarshalUser(ul.Users[k])]]

\* ImportFrom on a file that exists: json.Unmarshal, then the options.
ImportFrom(buffer, options) ==
    [Name |-> buffer.name, Timestamp |-> UnmarshalTime(buffer.timestamp),
     Users |-> [k \in DOMAIN buffer.users |-> UnmarshalUser(buffer.users[k])],
     Options |-> options]

\* AuthManager.ExportTo, under ul.lock.RLock(): UpdateTimestamp, MarshalIndent
\* and os.WriteFile, whose error is dropped: nil is returned whether or not
\* the file was written.
ExportTo(t, I) ==
    /\ CanRequest(t, I)
    /\ ulLock.writer = 0
    /\ authManager' = [authManager EXCEPT !.Timestamp = clock]
    /\ \E written \in BOOLEAN :
          /\ file' = IF written THEN MarshalIndent(authManager') ELSE file
          /\ exported' = IF written
                         THEN [exists |-> TRUE, ul |-> authManager']
                         ELSE exported
    /\ AuthReturn(t, [NoRequest EXCEPT !.op = "ExportTo"], "nil", ZeroTokenData, ZeroUser)
    /\ acalls' = acalls + 1
    /\ UNCHANGED <<ulLock, tmLock, tokens, drawn, issued, clock, store>>

\* The service stops with every request answered and is started again with
\* some salt: ImportFromOrNew reads the user list file, or makes a new
\* AuthManager when ImportFrom answers ErrUserFileNotFound; the token manager
\* and the table are new.
ImportFromOrNew(I) ==
    /\ acalls < I.N
    /\ ~fatal
    /\ \A t \in Threads : ath[t].pc = "idle" /\ th[t].pc = "idle"
    /\ \E salt \in I.Salts :
          authManager' = IF file.exists
                         THEN ImportFrom(file, UserOptions(salt))
                         ELSE NewAuthManager("Global User List", UserOptions(salt), clock)
    /\ ulLock' = [writer |-> 0, readers |-> {}]
    /\ tmLock' = [writer |-> 0, readers |-> {}]
    /\ tokens' = NewTokenManager
    /\ ath' = [t \in Threads |-> AuthIdle]
    /\ aret' = [t \in Threads |->
                  IF t = 1
                  THEN [NoAuthRet EXCEPT !.req.op = "ImportFrom",
                                         !.err = IF file.exists THEN "nil"
                                                 ELSE "ErrUserFileNotFound"]
                  ELSE NoAuthRet]
    /\ acalls' = acalls + 1
    /\ Contents' = NewCache
    /\ lock' = [writer |-> 0, readers |-> {}]
    /\ entryLock' = [i \in LockIds |-> 0]
    /\ ret' = [t \in Threads |-> NoRet]
    /\ net' = [k \in Keys |-> 0]
    /\ lastWrite' = [k \in Keys |-> NoWrite]
    /\ UNCHANGED <<file, drawn, issued, exported, clock, th, calls, fatal, perm>>

\* ------------------------------------------------------ requests for keys

\* The handlers of /key/{key}, and those of them main wraps in
\* MaximumTimeReturn.
KeyHandlers == {"GetKey", "PutKey", "PatchKey", "PostKey", "DeleteKey"}

Timed == {"PatchKey", "PutKey", "PostKey"}

\* The Authorization headers of requests: none, "Bearer " with nothing after
\* it, and a token after "Bearer " or after another scheme.
Headers(I) ==
    {<<>>, <<"Bearer">>} \cup {<<scheme, token>> : scheme \in {"Bearer", "Basic"}, token \in I.Tokens}

\* ParseBearerAuthorization: the header matches ^Bearer (.+)\w*$ or not.
ParseBearerAuthorization(contents) ==
    IF Len(contents) = 2 /\ contents[1] = "Bearer"
    THEN [token |-> contents[2], err |-> "nil"]
    ELSE IF contents = <<>>
         THEN [token |-> 0, err |-> "ErrNoAuthorizationHeader"]
         ELSE [token |-> 0, err |-> "ErrUnauthorized"]

\* What TokenManager.GetToken returns for a token now.
TokenData(token) ==
    IF token \in DOMAIN tokens
    THEN IF tokens[token].Expiry < clock
         THEN [data |-> ZeroTokenData, err |-> "ErrTokenExpired"]
         ELSE [data |-> tokens[token], err |-> "nil"]
    ELSE [data |-> ZeroTokenData, err |-> "ErrTokenInvalid"]

\* GetUserFromContext: ok when the middleware has put a user into the
\* context of the request.
GetUserFromContext(req) == [user |-> req.user, ok |-> req.user # ZeroUser]

\* The User record of the table's model that a registered user is: record 3
\* is Bob as he registers first, record 5 is Bob registered again.
UserId(u) == IF u.Uuid = 1 THEN 3 ELSE 5

\* The context of a request for a key after the middleware, given what
\* GetToken answered for the token of its header.
KeyRequest(t, I, handler, header, parsed, found) ==
    /\ ath' = [ath EXCEPT ![t] =
                 [pc |-> IF handler \in Timed THEN "MaximumTimeReturn" ELSE "Handler",
                  req |-> [NoRequest EXCEPT !.op = handler, !.header = header,
                                            !.token = parsed.token,
                                            !.user = IF parsed.err = "nil" /\ found.err = "nil"
                                                     THEN found.data.User
                                                     ELSE ZeroUser]]]
    /\ aret' = [aret EXCEPT ![t] = NoAuthRet]
    /\ ret' = [ret EXCEPT ![t] = NoRet]
    /\ acalls' = acalls + 1
    /\ UNCHANGED <<authManager, ulLock, tmLock, tokens, file, drawn, issued, exported, clock,
                   Contents, lock, entryLock, th, calls, fatal, net, lastWrite, perm>>

\* The middleware putting the user of a token into the context when GetToken
\* answers ErrTokenExpired.
PassThroughExpiredToken(t, I) ==
    /\ CanRequest(t, I)
    /\ ~fatal
    /\ tmLock.writer = 0
    /\ \E handler \in KeyHandlers, header \in Headers(I) :
          LET parsed == ParseBearerAuthorization(header)
              found == IF parsed.token \in DOMAIN tokens
                       THEN [data |-> tokens[parsed.token], err |-> "nil"]
                       ELSE [data |-> ZeroTokenData, err |-> "ErrTokenInvalid"]
          IN  KeyRequest(t, I, handler, header, parsed, found)

\* PassThroughAuthorizationToken before a handler of /key/{key}: the token of
\* the header and, when GetToken finds it, its user go into the context; the
\* next handler is called in every case.
PassThroughAuthorizationToken(t, I) ==
    /\ CanRequest(t, I)
    /\ ~fatal
    /\ tmLock.writer = 0
    /\ \E handler \in KeyHandlers, header \in Headers(I) :
          LET parsed == ParseBearerAuthorization(header)
          IN  KeyRequest(t, I, handler, header, parsed, TokenData(parsed.token))

\* MaximumTimeReturn up to its select: the context with the deadline, the two
\* unbuffered channels, and the goroutine that will call the handler.
MaximumTimeReturn(t) ==
    /\ ath[t].pc = "MaximumTimeReturn"
    /\ ath' = [ath EXCEPT ![t].pc = "Select"]
    /\ UNCHANGED <<authManager, ulLock, tmLock, tokens, file, aret, acalls, drawn, issued, exported,
                   clock, store>>

\* Handler op is about to run in the goroutine of t.
InHandler(t, op) == Handling(t) /\ th[t].pc = "idle" /\ ath[t].req.op = op

\* The user the handler of t passes to the table.
Caller(t) == {UserId(GetUserFromContext(ath[t].req).user)}

\* A handler of /key/{key} finding no user in the context: 401, and no call
\* of the table.
Unauthorized(t) ==
    /\ \E op \in KeyHandlers : InHandler(t, op)
    /\ ~fatal
    /\ ~GetUserFromContext(ath[t].req).ok
    /\ ret' = [ret EXCEPT ![t] = Result([NoCall EXCEPT !.op = ath[t].req.op], "ErrUnauthorized",
                                        ZeroDelivery, 0, FALSE)]
    /\ UNCHANGED <<Contents, lock, entryLock, th, clock, calls, fatal, net, lastWrite, perm, auth>>

GetKey(t, K, N) ==
    /\ InHandler(t, "GetKey")
    /\ GetUserFromContext(ath[t].req).ok
    /\ GetValue(t, Caller(t), K, N)

PutKey(t, K, N) ==
    /\ InHandler(t, "PutKey")
    /\ GetUserFromContext(ath[t].req).ok
    /\ PutValueWithOwner(t, Caller(t), K, N)

PatchKey(t, K, N) ==
    /\ InHandler(t, "PatchKey")
    /\ GetUserFromContext(ath[t].req).ok
    /\ UpdateValue(t, Caller(t), K, N)

PostKey(t, K, N) ==
    /\ InHandler(t, "PostKey")
    /\ GetUserFromContext(ath[t].req).ok
    /\ PutOrUpdateValue(t, Caller(t), K, N)

DeleteKey(t, K, N) ==
    /\ InHandler(t, "DeleteKey")
    /\ GetUserFromContext(ath[t].req).ok
    /\ DeleteValue(t, Caller(t), K, N)

\* The handler of t has returned.
Handled(t) == th[t].pc = "idle" /\ ret[t] # NoRet

\* A handler that main does not wrap returns to huma, which answers the
\* request.
Respond(t) ==
    /\ ath[t].pc = "Handler"
    /\ Handled(t)
    /\ AuthReturn(t, ath[t].req, ret[t].err, ZeroTokenData, ZeroUser)
    /\ UNCHANGED <<authManager, ulLock, tmLock, tokens, file, acalls, drawn, issued, exported,
                   clock, store>>

\* The select of MaximumTimeReturn receives what the goroutine sends on chR
\* or chErr: the send and the receive are one step, the channels having no
\* buffer; the goroutine ends.
Receive(t) ==
    /\ ath[t].pc = "Select"
    /\ Handled(t)
    /\ AuthReturn(t, ath[t].req, ret[t].err, ZeroTokenData, ZeroUser)
    /\ UNCHANGED <<authManager, ulLock, tmLock, tokens, file, acalls, drawn, issued, exported,
                   clock, store>>

\* The select of MaximumTimeReturn takes <-ctx.Done(): the request is answered
\* 504 and MaximumTimeReturn returns; the goroutine is where it was.
Timeout(t) ==
    /\ ath[t].pc = "Select"
    /\ ath' = [ath EXCEPT ![t].pc = "Timeout"]
    /\ aret' = [aret EXCEPT ![t] = [req |-> ath[t].req, err |-> "ErrOperationTimeout",
                                    data |-> ZeroTokenData, user |-> ZeroUser]]
    /\ UNCHANGED <<authManager, ulLock, tmLock, tokens, file, acalls, drawn, issued, exported,
                   clock, store>>

\* ------------------------------------------------------------ specification

Step(t, U, K, N) ==
    \/ CallPut(t, K, N)
    \/ PutValueWithOwner(t, U, K, N)
    \/ Put(t)
    \/ PutWrite(t)
    \/ GetValue(t, U, K, N)
    \/ Length(t, N)
    \/ UpdateValue(t, U, K, N)
    \/ PutOrUpdateValue(t, U, K, N)
    \/ LockAndDo(t)
    \/ LockAndDoOperation(t)
    \/ LockAndDoWrite(t)
    \/ DeleteValue(t, U, K, N)
    \/ Delete(t)
    \/ DeleteWrite(t)

\* The caller of the concurrent runs: Bob, who may do everything to his own keys.
StoreUsers == {3}

\* Goroutines calling into one cache concurrently.
Next == \E t \in Threads : Step(t, StoreUsers, Keys, MaxCalls)

Spec == Init /\ [][Next]_vars

\* One goroutine, every user.
NextSeq == Step(1, UserIds, Keys, MaxSeqCalls)

SpecSeq == Init /\ [][NextSeq]_vars

\* The callers of the runs of concurrent inserts and deletes: Dave, the admin,
\* and Bob, restricted to his own keys.
DelUsers == {1, 3}

DelKeys == {"k1"}

\* Goroutines inserting and deleting one key concurrently, for two owners.
NextDel ==
    \E t \in Threads :
        \/ PutValueWithOwner(t, DelUsers, DelKeys, MaxDelCalls)
        \/ Put(t)
        \/ PutWrite(t)
        \/ DeleteValue(t, DelUsers, DelKeys, MaxDelCalls)
        \/ Delete(t)
        \/ DeleteWrite(t)

SpecDel == Init /\ [][NextDel]_vars

\* The permission evaluator on every Privileges value.
InitPerm ==
    /\ Contents = NewCache
    /\ lock = [writer |-> 0, readers |-> {}]
    /\ entryLock = [i \in LockIds |-> 0]
    /\ th = [t \in Threads |-> Idle]
    /\ ret = [t \in Threads |-> NoRet]
    /\ clock = 1
    /\ calls = 0
    /\ fatal = FALSE
    /\ net = [k \in Keys |-> 0]
    /\ lastWrite = [k \in Keys |-> NoWrite]
    /\ perm \in [privileges : AllPrivileges, isOwner : BOOLEAN, done : {FALSE},
                 res : {NoPermissions}]
    /\ InitAuth

Evaluate ==
    /\ ~perm.done
    /\ LET u == NewUser("Any", "any@test.com", perm.privileges)
       IN  perm' = [perm EXCEPT !.done = TRUE,
                                !.res = Permissions(CanSelect(u, perm.isOwner),
                                                    CanInsert(u, perm.isOwner),
                                                    CanUpdate(u, perm.isOwner),
                                                    CanDelete(u, perm.isOwner))]
    /\ UNCHANGED <<Contents, lock, entryLock, th, ret, clock, calls, fatal, net, lastWrite, auth>>

SpecPerm == InitPerm /\ [][Evaluate]_vars

\* The inputs of the requests about tokens: one registration per address,
\* logins, resolutions and revocations of every token, while time passes.
TokInputs ==
    [N |-> MaxAuthCalls, MaxTime |-> MaxTime, Names |-> {"Bob"},
     Emails |-> {"bob@test.com", "steve@test.com"}, Passwords |-> {<<"a">>},
     UserTypes |-> {"restricted"}, Tokens |-> TokenIds, Salts |-> {<<"c">>}]

NextTok ==
    \/ AddUserRequest(1, TokInputs)
    \/ AddUser(1)
    \/ AddUserWrite(1)
    \/ CreateToken(1)
    \/ CreateTokenWrite(1)
    \/ LoginUser(1, TokInputs)
    \/ RemoveUser(1, TokInputs)
    \/ GetToken(1, TokInputs)
    \/ DeleteToken(1, TokInputs)
    \/ Tick(TokInputs)

SpecTok == Init /\ [][NextTok]_vars

\* The requests about tokens of one user, with inserts into and deletes from
\* the table in between.
TokStoreInputs ==
    [N |-> MaxTokStoreRequests, MaxTime |-> MaxTime, Names |-> {"Bob"},
     Emails |-> {"bob@test.com"}, Passwords |-> {<<"a">>},
     UserTypes |-> {"restricted"}, Tokens |-> {1, 2}, Salts |-> {<<"c">>}]

NextTokStore ==
    \/ AddUserRequest(1, TokStoreInputs)
    \/ AddUser(1)
    \/ AddUserWrite(1)
    \/ CreateToken(1)
    \/ CreateTokenWrite(1)
    \/ LoginUser(1, TokStoreInputs)
    \/ RemoveUser(1, TokStoreInputs)
    \/ GetToken(1, TokStoreInputs)
    \/ DeleteToken(1, TokStoreInputs)
    \/ Tick(TokStoreInputs)
    \/ PutValueWithOwner(1, StoreUsers, DelKeys, MaxTokStoreCalls)
    \/ Put(1)
    \/ PutWrite(1)
    \/ DeleteValue(1, StoreUsers, DelKeys, MaxTokStoreCalls)
    \/ Delete(1)
    \/ DeleteWrite(1)

SpecTokStore == Init /\ [][NextTokStore]_vars

\* The inputs of the requests to the registry: every spelling and password,
\* a type that is known and one that is not, and restarts of the service
\* with either salt.
RegInputs ==
    [N |-> MaxRegCalls, MaxTime |-> 2, Names |-> {"Bob"}, Emails |-> Emails,
     Passwords |-> Passwords, UserTypes |-> {"restricted", "nobody"}, Tokens |-> {1},
     Salts |-> Salts]

NextReg ==
    \/ AddUserRequest(1, RegInputs)
    \/ AddUser(1)
    \/ AddUserWrite(1)
    \/ CreateToken(1)
    \/ CreateTokenWrite(1)
    \/ LoginUser(1, RegInputs)
    \/ GetUser(1, RegInputs)
    \/ RemoveUser(1, RegInputs)
    \/ GetToken(1, RegInputs)
    \/ ExportTo(1, RegInputs)
    \/ ImportFromOrNew(RegInputs)
    \/ Tick(RegInputs)

SpecReg == Init /\ [][NextReg]_vars

\* Two goroutines registering users at the same time.
RaceInputs ==
    [N |-> NumThreads, MaxTime |-> 1, Names |-> Names,
     Emails |-> {"bob@test.com", "Bob@Test.com"}, Passwords |-> Passwords,
     UserTypes |-> {"admin", "restricted"}, Tokens |-> {1}, Salts |-> {<<"c">>}]

NextRace ==
    \E t \in Threads :
        \/ AddUserRequest(t, RaceInputs)
        \/ AddUser(t)
        \/ AddUserWrite(t)
        \/ CreateToken(t)
        \/ CreateTokenWrite(t)

SpecRace == Init /\ [][NextRace]_vars

\* Goroutines inserting and updating concurrently, with calls enough for two
\* updates of two keys.
MaxUpdCalls == 4

StepUpd(t) ==
    \/ PutValueWithOwner(t, StoreUsers, Keys, MaxUpdCalls)
    \/ Put(t)
    \/ PutWrite(t)
    \/ UpdateValue(t, StoreUsers, Keys, MaxUpdCalls)
    \/ LockAndDo(t)
    \/ LockAndDoOperation(t)
    \/ LockAndDoWrite(t)

NextUpd == \E t \in Threads : StepUpd(t)

SpecUpd == Init /\ [][NextUpd]_vars

\* Goroutines registering, logging in and out and calling the table at the
\* same time.
MaxLockRequests == 2

MaxLockCalls == 2

LockInputs ==
    [N |-> MaxLockRequests, MaxTime |-> 1, Names |-> {"Bob"},
     Emails |-> {"bob@test.com"}, Passwords |-> {<<"a">>},
     UserTypes |-> {"restricted"}, Tokens |-> {1}, Salts |-> {<<"c">>}]

StepLocks(t) ==
    \/ AddUserRequest(t, LockInputs)
    \/ AddUser(t)
    \/ AddUserWrite(t)
    \/ CreateToken(t)
    \/ CreateTokenWrite(t)
    \/ LoginUser(t, LockInputs)
    \/ GetUser(t, LockInputs)
    \/ RemoveUser(t, LockInputs)
    \/ GetToken(t, LockInputs)
    \/ DeleteToken(t, LockInputs)
    \/ ExportTo(t, LockInputs)
    \/ Step(t, StoreUsers, DelKeys, MaxLockCalls)

NextLocks == \E t \in Threads : StepLocks(t)

SpecLocks == Init /\ [][NextLocks]_vars

\* The steps goroutine t takes inside a call of the table once it has made
\* the call.
Progress(t) ==
    \/ Put(t)
    \/ PutWrite(t)
    \/ LockAndDo(t)
    \/ LockAndDoOperation(t)
    \/ LockAndDoWrite(t)
    \/ Delete(t)
    \/ DeleteWrite(t)

\* Goroutines calling into one cache concurrently, under the Go scheduler: a
\* goroutine that can take its next step, and is not waiting for a lock,
\* takes it.
MaxFairCalls == 2

NextFair == \E t \in Threads : Step(t, StoreUsers, Keys, MaxFairCalls)

SpecFair == Init /\ [][NextFair]_vars /\ \A t \in Threads : WF_vars(Progress(t))

\* One registration, and requests for keys with every header while time
\* passes and tokens are revoked.
MaxKeyRequests == 4

MaxKeyCalls == 2

KeyInputs ==
    [N |-> MaxKeyRequests, MaxTime |-> 4, Names |-> {"Bob"},
     Emails |-> {"bob@test.com"}, Passwords |-> {<<"a">>},
     UserTypes |-> {"restricted"}, Tokens |-> {1}, Salts |-> {<<"c">>}]

NextKey ==
    \/ AddUserRequest(1, KeyInputs)
    \/ AddUser(1)
    \/ AddUserWrite(1)
    \/ CreateToken(1)
    \/ CreateTokenWrite(1)
    \/ DeleteToken(1, KeyInputs)
    \/ Tick(KeyInputs)
    \/ PassThroughAuthorizationToken(1, KeyInputs)
    \/ MaximumTimeReturn(1)
    \/ Unauthorized(1)
    \/ GetKey(1, DelKeys, MaxKeyCalls)
    \/ PutKey(1, DelKeys, MaxKeyCalls)
    \/ PatchKey(1, DelKeys, MaxKeyCalls)
    \/ PostKey(1, DelKeys, MaxKeyCalls)
    \/ DeleteKey(1, DelKeys, MaxKeyCalls)
    \/ Put(1)
    \/ PutWrite(1)
    \/ LockAndDo(1)
    \/ LockAndDoOperation(1)
    \/ LockAndDoWrite(1)
    \/ Delete(1)
    \/ DeleteWrite(1)
    \/ Respond(1)
    \/ Receive(1)
    \/ Timeout(1)

SpecKey == Init /\ [][NextKey]_vars

\* The steps of the goroutine that runs the handler of t's request, and the
\* receive of what it sends.
KeyProgress(t) ==
    \/ MaximumTimeReturn(t)
    \/ Unauthorized(t)
    \/ GetKey(t, DelKeys, MaxKeyCalls)
    \/ PutKey(t, DelKeys, MaxKeyCalls)
    \/ PatchKey(t, DelKeys, MaxKeyCalls)
    \/ PostKey(t, DelKeys, MaxKeyCalls)
    \/ DeleteKey(t, DelKeys, MaxKeyCalls)
    \/ Progress(t)
    \/ Respond(t)
    \/ Receive(t)

\* The requests for keys under the Go scheduler: a goroutine that can take
\* its next step takes it; the deadline of a request may pass at any time.
SpecKeyFair == Init /\ [][NextKey]_vars /\ WF_vars(KeyProgress(1))

\* ------------------------------------------------------------------ claims

InsertOps == {"Put", "PutValueWithOwner"}

\* Goroutine t's call returns in this step.
Returns(t) == ret'[t] # ret[t] /\ ret'[t] # NoRet

IsPresent(k) == k \in DOMAIN Contents

\* C1: of the concurrent inserts of one absent key exactly one succeeds and
\* the others fail with KeyExists: an insert that returns while the key is
\* absent succeeds and stores its own entry, an insert that returns while it
\* is present fails with KeyExists, and successes and deletes of a key
\* alternate (net is 1 for a present key, 0 for an absent one).
C1_OneInsertSucceeds ==
    /\ [](\A k \in Keys : net[k] = IF IsPresent(k) THEN 1 ELSE 0)
    /\ [][\A t \in Threads :
            (Returns(t) /\ ret'[t].call.op \in InsertOps) =>
                LET c == ret'[t].call IN
                IF IsPresent(c.key)
                THEN ret'[t].err = "ErrKeyExists" /\ Contents' = Contents
                ELSE /\ ret'[t].err = "nil"
                     /\ c.key \in DOMAIN Contents'
                     /\ Contents'[c.key].Delivery.Value = Bytes(c.value)
                     /\ Contents'[c.key].Delivery.Ownership.Email =
                            (IF c.op = "Put" THEN Nil ELSE AddrEmail(c.owner))
                     /\ lastWrite'[c.key].op = "Put"]_vars

\* Two inserts of k1 were in progress together: the one called first (its
\* time stamp would be 1) lost to the one called second.
C1_Witness ==
    /\ calls = 2
    /\ ret[1].call.op = "PutValueWithOwner" /\ ret[1].call.key = "k1" /\ ret[1].err = "nil"
    /\ ret[2].call.op = "PutValueWithOwner" /\ ret[2].call.key = "k1"
    /\ ret[2].err = "ErrKeyExists"
    /\ ret[2].call.id = 1
    /\ IsPresent("k1") /\ Contents["k1"].Delivery.CreatedAt = 2

\* The requester of insert call c may insert for c's owner; the low-level Put
\* makes no permission check.
MayInsert(c) ==
    c.op = "Put" \/ CanInsert(User(c.user), User(c.owner).Email = User(c.user).Email)

\* C2 as stated: an insert of a present key always fails with KeyExists and
\* leaves the entry unchanged.
C2_AlwaysKeyExists ==
    [][\A t \in Threads :
        (Returns(t) /\ ret'[t].call.op \in InsertOps /\ IsPresent(ret'[t].call.key)) =>
            ret'[t].err = "ErrKeyExists" /\ Contents' = Contents]_vars

\* C2: an insert of a present key never succeeds and leaves the entry's value,
\* owner and creation time unchanged; it fails with KeyExists when the
\* requester may insert for that owner, and with PermissionDenied otherwise
\* (the permission check precedes the existence check).
C2_InsertPresentFails ==
    [][\A t \in Threads :
        (Returns(t) /\ ret'[t].call.op \in InsertOps /\ IsPresent(ret'[t].call.key)) =>
            /\ ret'[t].err = IF MayInsert(ret'[t].call) THEN "ErrKeyExists" ELSE "ErrNotPermitted"
            /\ Contents' = Contents]_vars

\* An insert by another user with another payload failed with KeyExists on a
\* key that still holds the first insert.
C2_Witness ==
    /\ ret[1].call.op = "PutValueWithOwner" /\ ret[1].err = "ErrKeyExists"
    /\ IsPresent(ret[1].call.key)
    /\ lastWrite[ret[1].call.key].op = "Put"
    /\ lastWrite[ret[1].call.key].user # ret[1].call.user
    /\ Contents[ret[1].call.key].Delivery.Value # Bytes(ret[1].call.value)
    /\ Contents[ret[1].call.key].Delivery.CreatedAt = lastWrite[ret[1].call.key].at

\* The last successful write of key k is PutValueWithOwner(k, v, owner, owner)
\* made by user u for itself.
InsertedOwn(k, u) ==
    lastWrite[k].op = "Put" /\ lastWrite[k].user = u /\ lastWrite[k].owner = u

\* C3: a user who may insert and select own keys inserts k for itself and
\* then reads k, with no write of k in between: the read succeeds, returns the
\* inserted value whole, and the returned owner e-mail is the user's.
C3_InsertThenRead ==
    [][\A t \in Threads :
        LET c == ret'[t].call IN
        (/\ Returns(t) /\ c.op = "GetValue"
         /\ InsertedOwn(c.key, c.user)
         /\ CanInsert(User(c.user), TRUE) /\ CanSelect(User(c.user), TRUE)) =>
            /\ ret'[t].err = "nil"
            /\ ret'[t].delivery.Value = Bytes(lastWrite[c.key].value)
            /\ ret'[t].delivery.CreatedAt = lastWrite[c.key].at
            /\ ret'[t].delivery.Ownership.Email # Nil
            /\ Deref(ret'[t].delivery.Ownership.Email) = User(c.user).Email]_vars

\* Bob, restricted, inserted p2 for himself and read it back in the next call.
C3_Witness ==
    /\ calls = 2
    /\ ret[1].call.op = "GetValue" /\ ret[1].call.user = 3 /\ ret[1].err = "nil"
    /\ InsertedOwn(ret[1].call.key, 3)
    /\ ret[1].delivery.Value = Bytes("p2")
    /\ Deref(ret[1].delivery.Ownership.Email) = "bob@test.com"

KeyedOps == {"GetValue", "UpdateValue", "DeleteValue"}

\* C4: GetValue, UpdateValue and DeleteValue of a key that is not in the table
\* fail with KeyNotFound for every requester, and leave the table as it was.
C4_AbsentKeyNotFound ==
    [][\A t \in Threads :
        (Returns(t) /\ ret'[t].call.op \in KeyedOps /\ ~IsPresent(ret'[t].call.key)) =>
            ret'[t].err = "ErrKeyNotFound" /\ Contents' = Contents]_vars

\* John, who may only read his own keys, was answered KeyNotFound by
\* DeleteValue on a key that is absent while the other key is present.
C4_Witness ==
    /\ ret[1].call.op = "DeleteValue" /\ ret[1].call.user = 4
    /\ ret[1].err = "ErrKeyNotFound"
    /\ ~IsPresent(ret[1].call.key)
    /\ DOMAIN Contents # {}

RECURSIVE SumNet(_)
\* Successful inserts minus successful deletes over the keys of S.
SumNet(S) ==
    IF S = {} THEN 0
    ELSE LET k == CHOOSE k \in S : TRUE IN net[k] + SumNet(S \ {k})

\* No Put or Delete is between the start and the end of its write.
NoCountChange == \A s \in Threads : th[s].pc \notin {"PutWrite", "DeleteWrite"}

\* C5: the table holds as many keys as inserts minus deletes have succeeded,
\* every key whose last write is an insert maps to that insert's value, and
\* Length, called when the inserts have returned, returns that number.
C5_LengthCountsInserts ==
    /\ [](/\ Cardinality(DOMAIN Contents) = SumNet(Keys)
          /\ \A k \in Keys :
                lastWrite[k].op = "Put" =>
                    /\ IsPresent(k)
                    /\ Contents[k].Delivery.Value = Bytes(lastWrite[k].value)
                    /\ Contents[k].Delivery.CreatedAt = lastWrite[k].at)
    /\ [][\A t \in Threads :
            (Returns(t) /\ ret'[t].call.op = "Length" /\ NoCountChange) =>
                ret'[t].n = SumNet(Keys)]_vars

\* Both goroutines inserted, one k1 and the other k2 with different payloads,
\* and Length then returned 2.
C5_Witness ==
    /\ calls = 3
    /\ \E t \in Threads :
          /\ ret[t].call.op = "Length" /\ ret[t].n = 2 /\ ret[t].call.id = 3
          /\ \E s \in Threads \ {t} : ret[s].call.op = "PutValueWithOwner" /\ ret[s].err = "nil"
    /\ \A k \in Keys : lastWrite[k].op = "Put" /\ IsPresent(k)
    /\ Contents["k1"].Delivery.Value # Contents["k2"].Delivery.Value

WholeValues == {Bytes(p) : p \in Payloads}

\* Key k is present and no insert or delete of it is in progress: the calls
\* that can be writing it are updates.
OnlyUpdated(k) ==
    /\ IsPresent(k)
    /\ \A s \in Threads : th[s].call.key = k => th[s].pc \notin {"PutWrite", "DeleteWrite"}

\* C6: after concurrent updates of one key the entry holds one whole payload
\* with the creation time that update wrote, and no GetValue that succeeds on
\* a present key, which only updates can be writing, returns anything but a
\* whole payload.
C6_NoTornValue ==
    /\ [](\A k \in Keys :
            (lastWrite[k].op = "Update" /\ IsPresent(k)) =>
                /\ Contents[k].Delivery.Value = Bytes(lastWrite[k].value)
                /\ Contents[k].Delivery.CreatedAt = lastWrite[k].at)
    /\ [][\A t \in Threads :
            (/\ Returns(t) /\ ret'[t].call.op = "GetValue" /\ ret'[t].err = "nil"
             /\ OnlyUpdated(ret'[t].call.key)) =>
                ret'[t].delivery.Value \in WholeValues]_vars

Actions == {"Select", "Insert", "Update", "Delete"}

\* The decision table: all[action] OR (isOwner AND owned[action]).
Allow(privileges, isOwner, action) ==
    privileges.All[action] \/ (isOwner /\ privileges.Owned[action])

\* C7: for every Privileges value and both values of isOwner, CanSelect,
\* CanInsert, CanUpdate and CanDelete return all[action] OR (isOwner AND
\* owned[action]).
C7_DecisionTable ==
    perm.done => \A a \in Actions : perm.res[a] = Allow(perm.privileges, perm.isOwner, a)

\* A user who is not the owner, whose owned permissions do not include
\* delete and whose permissions on all keys do, may delete.
C7_Witness ==
    /\ perm.done /\ ~perm.isOwner
    /\ perm.privileges.All.Delete /\ ~perm.privileges.Owned.Delete
    /\ perm.res.Delete /\ ~perm.res.Insert

\* The permission GetValue, UpdateValue and DeleteValue ask for.
Permits(op, u, isOwner) ==
    CASE op = "GetValue" -> CanSelect(u, isOwner)
      [] op = "UpdateValue" -> CanUpdate(u, isOwner)
      [] op = "DeleteValue" -> CanDelete(u, isOwner)

\* The entry of k has an owner, and its owner's e-mail is that of user u.
SameEmail(k, u) == Deref(Contents[k].Delivery.Ownership.Email) = User(u).Email

HasOwner(k) == IsPresent(k) /\ Contents[k].Delivery.Ownership.Email # Nil

\* C8: GetValue, UpdateValue and DeleteValue of an owned key deny the
\* requester exactly when the privileges do not permit the action with
\* is-owner taken as equality of the e-mail strings, whichever User record
\* carries the e-mail.
C8_OwnerByEmail ==
    [][\A t \in Threads :
        LET c == ret'[t].call IN
        (Returns(t) /\ c.op \in KeyedOps /\ HasOwner(c.key)) =>
            ((ret'[t].err = "ErrNotPermitted") = ~Permits(c.op, User(c.user), SameEmail(c.key, c.user)))]_vars

\* C9: a user with admin privileges is never answered ErrNotPermitted: its
\* insert of an absent key, for whatever owner, succeeds, and so do its read,
\* update and delete of a present key, whoever owns it.
C9_AdminNeverDenied ==
    [][\A t \in Threads :
        LET c == ret'[t].call IN
        (Returns(t) /\ c.user \in UserIds /\ User(c.user).Privileges = AdminUser) =>
            /\ ret'[t].err # "ErrNotPermitted"
            /\ (c.op = "PutValueWithOwner" /\ ~IsPresent(c.key)) => ret'[t].err = "nil"
            /\ (c.op \in KeyedOps /\ IsPresent(c.key)) => ret'[t].err = "nil"
            /\ c.op = "PutOrUpdateValue" => ret'[t].err = "nil"]_vars

\* Dave, the admin, deleted a key that John owns.
C9_Witness ==
    /\ ret[1].call.op = "DeleteValue" /\ ret[1].call.user = 1 /\ ret[1].err = "nil"
    /\ ret[1].delivery.Ownership.Email = AddrEmail(4)
    /\ ~IsPresent(ret[1].call.key)
    /\ lastWrite[ret[1].call.key].op = "Delete"

\* C10: a user with restricted privileges inserts keys for itself and reads,
\* updates and deletes the keys its e-mail owns; its insert for another owner
\* and its read, update and delete of a key another e-mail owns are answered
\* ErrNotPermitted and leave the table as it was.
C10_RestrictedOwnKeysOnly ==
    [][\A t \in Threads :
        LET c == ret'[t].call IN
        (Returns(t) /\ c.user \in UserIds /\ User(c.user).Privileges = RestrictedUser) =>
            /\ c.op = "PutValueWithOwner" =>
                  IF User(c.owner).Email = User(c.user).Email
                  THEN ~IsPresent(c.key) => ret'[t].err = "nil"
                  ELSE ret'[t].err = "ErrNotPermitted" /\ Contents' = Contents
            /\ (c.op \in KeyedOps /\ HasOwner(c.key)) =>
                  IF SameEmail(c.key, c.user)
                  THEN ret'[t].err = "nil"
                  ELSE ret'[t].err = "ErrNotPermitted" /\ Contents' = Contents]_vars

StevesKey(k) == HasOwner(k) /\ Contents[k].Delivery.Ownership.Email = AddrEmail(2)

\* C12: the admin reads and deletes a key a standard user owns, a restricted
\* user's read of it is answered ErrNotPermitted; a standard user reads the
\* keys of other owners, and its update or delete of them and its insert for
\* another owner are answered ErrNotPermitted.
C12_StandardUser ==
    [][\A t \in Threads :
        LET c == ret'[t].call IN
        (Returns(t) /\ c.user \in UserIds) =>
            /\ (c.op \in {"GetValue", "DeleteValue"} /\ StevesKey(c.key) /\ User(c.user).Privileges = AdminUser) =>
                  /\ ret'[t].err = "nil"
                  /\ ret'[t].delivery = Contents[c.key].Delivery
                  /\ c.op = "DeleteValue" => c.key \notin DOMAIN Contents'
            /\ (c.op = "GetValue" /\ StevesKey(c.key) /\ User(c.user).Privileges = RestrictedUser) =>
                  ret'[t].err = "ErrNotPermitted"
            /\ (User(c.user).Privileges = StandardUser /\ c.op = "GetValue" /\ HasOwner(c.key)) =>
                  ret'[t].err = "nil" /\ ret'[t].delivery = Contents[c.key].Delivery
            /\ (/\ User(c.user).Privileges = StandardUser /\ c.op \in {"UpdateValue", "DeleteValue"}
                /\ HasOwner(c.key) /\ ~SameEmail(c.key, c.user)) =>
                  ret'[t].err = "ErrNotPermitted" /\ Contents' = Contents
            /\ (/\ User(c.user).Privileges = StandardUser /\ c.op = "PutValueWithOwner"
                /\ User(c.owner).Email # User(c.user).Email) =>
                  ret'[t].err = "ErrNotPermitted" /\ Contents' = Contents]_vars

\* Steve inserted a key for himself and Bob's read of it was denied.
C12_Witness ==
    /\ ret[1].call.op = "GetValue" /\ ret[1].call.user = 3
    /\ ret[1].err = "ErrNotPermitted"
    /\ StevesKey(ret[1].call.key)
    /\ lastWrite[ret[1].call.key].op = "Put" /\ lastWrite[ret[1].call.key].user = 2

UpdateSteps == {"LockAndDo", "LockAndDoOperation", "LockAndDoWrite"}

\* C13: PutOrUpdateValue of an absent key does what PutValue of it by the same
\* requester does: a requester who may insert own keys creates the key with
\* itself as the owner, and the table grows by that key; any other requester
\* is answered ErrNotPermitted and the table stays as it was.
C13_UpsertAbsentAsInsert ==
    [][\A t \in Threads :
        LET c == ret'[t].call IN
        (Returns(t) /\ c.op = "PutOrUpdateValue" /\ ~IsPresent(c.key)) =>
            IF CanInsert(User(c.user), TRUE)
            THEN /\ ret'[t].err = "nil"
                 /\ DOMAIN Contents' = DOMAIN Contents \cup {c.key}
                 /\ \A k \in DOMAIN Contents : Contents'[k] = Contents[k]
                 /\ Contents'[c.key].Delivery.Value = Bytes(c.value)
                 /\ Contents'[c.key].Delivery.Ownership =
                        [Email |-> AddrEmail(c.user), Name |-> AddrName(c.user)]
            ELSE ret'[t].err = "ErrNotPermitted" /\ Contents' = Contents]_vars

C15_FallbackOnKeyExistsOnly ==
    /\ [](\A t \in Threads :
            (th[t].call.op = "PutOrUpdateValue" /\ th[t].pc \in UpdateSteps) =>
                th[t].call.putErr = "ErrKeyExists")
    /\ [][\A t \in Threads :
            LET c == ret'[t].call IN
            (Returns(t) /\ c.op = "PutOrUpdateValue" /\ c.putErr \notin {"none", "ErrKeyExists"}) =>
                ret'[t].err = c.putErr /\ Contents' = Contents]_vars

\* Goroutine t holds none of the table's lock and the entries' locks.
HoldsNoLock(t) ==
    /\ lock.writer # t /\ t \notin lock.readers
    /\ \A i \in LockIds : entryLock[i] # t

\* User u may insert own keys and update own keys.
MayUpsert(u) == CanInsert(User(u), TRUE) /\ CanUpdate(User(u), TRUE)

\* C16: a PutOrUpdateValue by a requester who may insert and update the key
\* returns nil, or ErrKeyNotFound after its insert step failed with
\* ErrKeyExists and a delete of the key took effect before its update step;
\* it holds no lock between the two steps, and its update step is never cut
\* short: the process does not stop while the step is in progress.
C16_UpsertFailsOnlyOnDelete ==
    /\ [](\A k \in Keys : IsPresent(k) <=> lastWrite[k].op \in {"Put", "Update"})
    /\ [](\A t \in Threads :
            (th[t].call.op = "PutOrUpdateValue" /\ th[t].pc \in {"Put", "LockAndDo"}) =>
                HoldsNoLock(t))
    /\ [][\A t \in Threads :
            LET c == ret'[t].call IN
            (Returns(t) /\ c.op = "PutOrUpdateValue" /\ MayUpsert(c.user)) =>
                \/ ret'[t].err = "nil"
                \/ /\ ret'[t].err = "ErrKeyNotFound"
                   /\ c.putErr = "ErrKeyExists"
                   /\ lastWrite[c.key].op = "Delete"]_vars
    /\ [](fatal => \A t \in Threads :
                        ~(th[t].call.op = "PutOrUpdateValue" /\ th[t].pc \in UpdateSteps))

\* C17: a DeleteValue that succeeds removes the key and returns the value the
\* entry held when it was removed; stated for the returns of a whole value,
\* whatever updates of the key were made meanwhile.
C17_DeleteReturnsRemoved ==
    [][\A t \in Threads :
        LET c == ret'[t].call IN
        (Returns(t) /\ c.op = "DeleteValue" /\ ret'[t].err = "nil") =>
            /\ IsPresent(c.key) /\ c.key \notin DOMAIN Contents'
            /\ ret'[t].delivery.Value \in WholeValues =>
                  ret'[t].delivery.Value = Contents[c.key].Delivery.Value]_vars

\* Delivery d is one that PutValueWithOwner stored whole: a whole payload and
\* both owner fields pointing into one User record.
WholeDelivery(d) ==
    /\ d.Value \in WholeValues
    /\ \E u \in UserIds : d.Ownership = [Email |-> AddrEmail(u), Name |-> AddrName(u)]

\* C18: the entry a successful DeleteValue removes is one the requester may
\* delete: the requester's privileges permit the delete with is-owner taken
\* against that entry's owner.  Stated for the calls whose own copy of the
\* entry, the one they return, is whole.
C18_DeletesOnlyPermitted ==
    [][\A t \in Threads :
        LET c == ret'[t].call IN
        (/\ Returns(t) /\ c.op = "DeleteValue" /\ ret'[t].err = "nil"
         /\ WholeDelivery(ret'[t].delivery)) =>
            /\ IsPresent(c.key) /\ c.key \notin DOMAIN Contents'
            /\ HasOwner(c.key) => CanDelete(User(c.user), SameEmail(c.key, c.user))]_vars

\* C19: UpdateValue changes the table only when the requester's privileges
\* permit the update, with is-owner true only for an entry that has an owner
\* whose e-mail is the requester's.
C19_UpdateOnlyPermitted ==
    [][\A t \in Threads :
        LET c == ret'[t].call IN
        (Returns(t) /\ c.op = "UpdateValue" /\ Contents' # Contents) =>
            CanUpdate(User(c.user), HasOwner(c.key) /\ SameEmail(c.key, c.user))]_vars

\* The owner fields the insert of key k's entry wrote.
InsertedOwnership(k) ==
    IF lastWrite[k].owner = 0
    THEN [Email |-> Nil, Name |-> Nil]
    ELSE [Email |-> AddrEmail(lastWrite[k].owner), Name |-> AddrName(lastWrite[k].owner)]

\* C20: an update that succeeds, by UpdateValue or PutOrUpdateValue, replaces
\* the entry's value by the payload and its creation time by the time of the
\* update, and changes nothing else in the table; as long as a key is present
\* its owner e-mail and owner name are those its insert wrote.
C20_UpdateFrame ==
    /\ [](\A k \in Keys : IsPresent(k) => Contents[k].Delivery.Ownership = InsertedOwnership(k))
    /\ [][\A t \in Threads :
            LET c == ret'[t].call IN
            (/\ Returns(t) /\ c.op \in {"UpdateValue", "PutOrUpdateValue"}
             /\ ret'[t].err = "nil" /\ IsPresent(c.key)) =>
                /\ Contents' = [Contents EXCEPT ![c.key].Delivery.Value = Bytes(c.value),
                                                ![c.key].Delivery.CreatedAt = clock - 1]
                /\ Contents'[c.key].Delivery.CreatedAt > Contents[c.key].Delivery.CreatedAt]_vars

\* The admin updated a key that Bob inserted for himself: the entry holds the
\* admin's payload and a later creation time, and Bob is still its owner.
C20_Witness ==
    /\ ret[1].call.op = "UpdateValue" /\ ret[1].call.user = 1 /\ ret[1].err = "nil"
    /\ lastWrite[ret[1].call.key].op = "Update" /\ lastWrite[ret[1].call.key].owner = 3
    /\ IsPresent(ret[1].call.key)
    /\ Contents[ret[1].call.key].Delivery.Value = Bytes(ret[1].call.value)
    /\ Contents[ret[1].call.key].Delivery.CreatedAt = 2
    /\ Contents[ret[1].call.key].Delivery.Ownership = [Email |-> AddrEmail(3), Name |-> AddrName(3)]

\* ------------------------------------------------------------------- C21

ValueOps == {"PutValueWithOwner", "UpdateValue", "PutOrUpdateValue", "DeleteValue"}

\* The entry of key k is what the last successful write of k made it.
AsLastWritten(k) ==
    /\ IsPresent(k)
    /\ Contents[k].Delivery.Value = Bytes(lastWrite[k].value)
    /\ Contents[k].Delivery.CreatedAt = lastWrite[k].at

\* C21: a value-level operation that returns ErrNotPermitted leaves the table
\* as it was. With one caller at a time: the step that returns the refusal
\* changes no entry, every step that changes the table is the last step of a
\* call that returns nil, and after a refused UpdateValue, PutOrUpdateValue or
\* DeleteValue the key is still present with the value and the createdAt of
\* the last successful write of it.
C21_DeniedChangesNothing ==
    /\ [](\A t \in Threads :
            (/\ th[t].pc = "idle"
             /\ ret[t].err = "ErrNotPermitted"
             /\ ret[t].call.op \in {"UpdateValue", "PutOrUpdateValue", "DeleteValue"})
            => AsLastWritten(ret[t].call.key))
    /\ [][/\ \A t \in Threads :
               (Returns(t) /\ ret'[t].err = "ErrNotPermitted" /\ ret'[t].call.op \in ValueOps)
               => Contents' = Contents
          /\ Contents' # Contents
               => \E t \in Threads : Returns(t) /\ ret'[t].err = "nil"]_vars

\* Bob (restricted) sent a different value for a key of Steve's and was
\* refused; the key holds what Steve inserted.
C21_Witness ==
    \E k \in Keys :
        /\ th[1].pc = "idle"
        /\ ret[1].call.op = "UpdateValue" /\ ret[1].call.key = k /\ ret[1].call.user = 3
        /\ ret[1].err = "ErrNotPermitted"
        /\ lastWrite[k].op = "Put" /\ lastWrite[k].owner = 2
        /\ ret[1].call.value # lastWrite[k].value
        /\ AsLastWritten(k)

\* ------------------------------------------------------------ C22 .. C26

\* Goroutine t's GetToken (Resolve) is made and returns in this step.
Resolves(t) == acalls' = acalls + 1 /\ aret'[t].req.op = "GetToken"

\* Goroutine t's DeleteToken (Revoke) is made and returns in this step.
Revokes(t) == acalls' = acalls + 1 /\ aret'[t].req.op = "DeleteToken"

\* Token k was issued and no Revoke of it has been made.
Standing(k) == k \in DOMAIN issued /\ ~issued[k].revoked

\* The handler of goroutine t is in TokenManager.CreateToken.
InCreateToken(t) == ath[t].pc \in {"CreateToken", "CreateTokenWrite"}

Without(table, k) == [j \in DOMAIN table \ {k} |-> table[j]]

\* C22: CreateToken returns a token for the user it was called with, expiring
\* the configured duration after the call; and GetToken of an issued token,
\* at any time not later than that expiry and before any DeleteToken of it,
\* returns that user and that expiry.
C22_IssueThenResolve ==
    [][\A t \in Threads :
          /\ (InCreateToken(t) /\ aret'[t].err = "nil")
             => /\ aret'[t].data.User = ath[t].req.user
                /\ aret'[t].data.Expiry = clock + TokenExpiration
                /\ aret'[t].data.Token \notin DOMAIN issued
          /\ Resolves(t)
             => LET k == aret'[t].req.token
                IN  (Standing(k) /\ clock <= issued[k].at + TokenExpiration)
                    => /\ aret'[t].err = "nil"
                       /\ aret'[t].data.Token = k
                       /\ aret'[t].data.User = issued[k].data.User
                       /\ aret'[t].data.Expiry = issued[k].at + TokenExpiration]_vars

\* A token issued for bob@test.com at an earlier time was resolved at the
\* very time of its expiry.
C22_Witness ==
    /\ aret[1].req.op = "GetToken" /\ aret[1].err = "nil"
    /\ aret[1].data.User.Email = "bob@test.com"
    /\ aret[1].data.Expiry = clock
    /\ issued[aret[1].req.token].at = clock - TokenExpiration

\* C23: DeleteToken of a token that is not in the table returns
\* ErrTokenInvalid and leaves the table as it is; DeleteToken of a token in
\* the table, expired or not, removes that token and nothing else; a revoked
\* token is never in the table again, and every later GetToken and
\* DeleteToken of it returns ErrTokenInvalid.
C23_Revoke ==
    /\ [](\A k \in DOMAIN issued : issued[k].revoked => k \notin DOMAIN tokens)
    /\ [][\A t \in Threads :
             /\ Revokes(t)
                => LET k == aret'[t].req.token
                   IN  IF k \in DOMAIN tokens
                       THEN aret'[t].err = "nil" /\ tokens' = Without(tokens, k)
                       ELSE aret'[t].err = "ErrTokenInvalid" /\ tokens' = tokens
             /\ ((Resolves(t) \/ Revokes(t))
                  /\ aret'[t].req.token \in DOMAIN issued
                  /\ issued[aret'[t].req.token].revoked)
                => aret'[t].err = "ErrTokenInvalid"]_vars

\* An expired token was revoked, and a second DeleteToken of it was refused.
C23_Witness ==
    LET k == aret[1].req.token
    IN  /\ aret[1].req.op = "DeleteToken" /\ aret[1].err = "ErrTokenInvalid"
        /\ k \in DOMAIN issued /\ issued[k].revoked
        /\ issued[k].data.Expiry < clock
        /\ k \notin DOMAIN tokens

\* C24: GetToken returns ErrTokenExpired exactly when the token is in the
\* table and the time is later than its expiry, and ErrTokenInvalid exactly
\* when the token is not in the table; time never goes back and an issued
\* token that cannot be resolved stays so.
C24_ExpiredOrInvalid ==
    [][/\ clock' >= clock
       /\ \A k \in DOMAIN issued :
             (k \notin DOMAIN tokens \/ tokens[k].Expiry < clock)
             => (k \notin DOMAIN tokens' \/ tokens'[k].Expiry < clock')
       /\ \A t \in Threads :
             Resolves(t)
             => LET k == aret'[t].req.token
                IN  /\ aret'[t].err = "ErrTokenExpired"
                         <=> (k \in DOMAIN tokens /\ tokens[k].Expiry < clock)
                    /\ aret'[t].err = "ErrTokenInvalid" <=> k \notin DOMAIN tokens
                    /\ aret'[t].err = "nil"
                         <=> (k \in DOMAIN tokens /\ clock <= tokens[k].Expiry)]_vars

\* A token was refused as expired at the first instant after its expiry.
C24_Witness ==
    LET k == aret[1].req.token
    IN  /\ aret[1].req.op = "GetToken" /\ aret[1].err = "ErrTokenExpired"
        /\ k \in DOMAIN tokens
        /\ clock = tokens[k].Expiry + 1

\* C25: GetToken changes nothing in the token table, whatever it returns: a
\* token resolved keeps its user and its expiry, a token refused as expired
\* stays in the table, is refused as expired again and is removed by a
\* DeleteToken, which returns nil.
C25_ResolveChangesNothing ==
    [][\A t \in Threads :
          /\ Resolves(t) => tokens' = tokens
          /\ \A k \in DOMAIN tokens :
                tokens[k].Expiry < clock
                => /\ (Resolves(t) /\ aret'[t].req.token = k)
                      => aret'[t].err = "ErrTokenExpired"
                   /\ (Revokes(t) /\ aret'[t].req.token = k)
                      => aret'[t].err = "nil" /\ k \notin DOMAIN tokens']_vars

\* A token refused as expired is in the table as CreateToken stored it.
C25_Witness ==
    LET k == aret[1].req.token
    IN  /\ aret[1].req.op = "GetToken" /\ aret[1].err = "ErrTokenExpired"
        /\ k \in DOMAIN tokens
        /\ tokens[k] = issued[k].data
        /\ clock > tokens[k].Expiry + 1

\* C26: a token that was issued and on which DeleteToken was not called is
\* in the table as it was stored, and GetToken returns its user at every time
\* not later than its expiry: the token of the table changes in no step but
\* the DeleteToken of that token, be it a CreateToken or a DeleteToken of
\* another token, the AddUser or the RemoveUser of its user, or a call of the
\* key-value table.
C26_OnlyRevokeInvalidates ==
    /\ [](\A k \in DOMAIN issued :
            ~issued[k].revoked => k \in DOMAIN tokens /\ tokens[k] = issued[k].data)
    /\ [][/\ \A k \in DOMAIN tokens :
                (k \notin DOMAIN tokens' \/ tokens'[k] # tokens[k])
                => \E t \in Threads : Revokes(t) /\ aret'[t].req.token = k
          /\ \A t \in Threads :
                (Resolves(t) /\ Standing(aret'[t].req.token)
                             /\ clock <= issued[aret'[t].req.token].data.Expiry)
                => /\ aret'[t].err = "nil"
                   /\ aret'[t].data.User = issued[aret'[t].req.token].data.User]_vars

\* The token of a user who has since been removed from the registry was
\* resolved, with a key in the table.
C26_Witness ==
    /\ aret[1].req.op = "GetToken" /\ aret[1].err = "nil"
    /\ aret[1].data.User.Email = "bob@test.com"
    /\ "bob@test.com" \notin DOMAIN authManager.Users
    /\ IsPresent("k1")

\* ------------------------------------------------------------------- C27

\* The AddUser request of goroutine t has stored its user: the handler is at
\* CreateToken, or has returned from it.
Registered(t) ==
    \/ InCreateToken(t) /\ ath[t].req.op = "AddUser"
    \/ aret[t].req.op = "AddUser" /\ aret[t].err \in {"nil", "ErrTokenGeneration"}

\* The user of goroutine t's AddUser request, in progress or returned.
Registering(t) == IF ath[t].pc = "idle" THEN aret[t].req.user ELSE ath[t].req.user

\* C27: AddUser returns ErrUserAlreadyExists with the existing user, and
\* changes nothing, when the e-mail of its user is registered; otherwise it
\* stores its user under an e-mail that was not registered and changes no
\* other user. Of the goroutines registering one e-mail at the same time no
\* two succeed, the one that succeeds has its user in the registry, and each
\* of the others is answered ErrUserAlreadyExists with the e-mail registered.
C27_RegisterOnce ==
    /\ [](\A t \in Threads :
            /\ Registered(t)
               => /\ Registering(t).Email \in DOMAIN authManager.Users
                  /\ authManager.Users[Registering(t).Email] = Registering(t)
            /\ \A u \in Threads \ {t} :
                  (/\ aret[t].req.op = "AddUser" /\ aret[u].req.op = "AddUser"
                   /\ aret[t].req.user.Email = aret[u].req.user.Email)
                  => /\ ~(Registered(t) /\ Registered(u))
                     /\ aret[t].req.user.Email \in DOMAIN authManager.Users
                     /\ ~Registered(t) => aret[t].err = "ErrUserAlreadyExists")
    /\ [][\A t \in Threads :
             /\ (ath[t].pc = "AddUser" /\ ath'[t].pc = "idle")
                => /\ aret'[t].err = "ErrUserAlreadyExists"
                   /\ ath[t].req.user.Email \in DOMAIN authManager.Users
                   /\ aret'[t].user = authManager.Users[ath[t].req.user.Email]
                   /\ authManager' = authManager
             /\ (ath[t].pc = "AddUser" /\ ath'[t].pc = "AddUserWrite")
                => ath[t].req.user.Email \notin DOMAIN authManager.Users
             /\ (ath[t].pc = "AddUserWrite" /\ ath'[t].pc # "AddUserWrite")
                => /\ ath[t].req.user.Email \notin DOMAIN authManager.Users
                   /\ authManager'.Users =
                        (ath[t].req.user.Email :> ath[t].req.user) @@ authManager.Users]_vars

\* Two goroutines asked to register two spellings of one address under
\* different names: the second was answered ErrUserAlreadyExists and the
\* registry holds the first one's user.
C27_Witness ==
    /\ aret[1].req.op = "AddUser" /\ aret[2].req.op = "AddUser"
    /\ aret[1].req.email = "Bob@Test.com" /\ aret[2].req.email = "bob@test.com"
    /\ aret[1].err = "nil" /\ aret[2].err = "ErrUserAlreadyExists"
    /\ aret[1].req.user.Name # aret[2].req.user.Name
    /\ aret[1].req.user.Uuid > aret[2].req.user.Uuid
    /\ authManager.Users["bob@test.com"] = aret[1].req.user

\* ------------------------------------------------------------------- C28

\* Goroutine t's request op is made and returns in this step.
Answers(t, op) == acalls' = acalls + 1 /\ aret'[t].req.op = op

\* The users registered under some spelling of email.
Spelt(email) ==
    {k \in DOMAIN authManager.Users :
        ToLower(authManager.Users[k].Email) = ToLower(email)}

\* C28: whatever AddUser, RemoveUser and restarts from the user list file
\* have been made, every user of the registry is stored under its e-mail,
\* which is in lower case, so that no two users have e-mails equal but for
\* the case of their letters; GetUser and RemoveUser with any spelling of a
\* registered e-mail find its user, RemoveUser removes it, and they return
\* ErrUserNotFound only when no user has that e-mail.
C28_OneUserPerEmail ==
    /\ [](\A k \in DOMAIN authManager.Users :
            /\ k = ToLower(k)
            /\ authManager.Users[k].Email = k
            /\ Spelt(k) = {k})
    /\ [][\A t \in Threads :
             /\ (Answers(t, "GetUser") \/ Answers(t, "RemoveUser"))
                => IF Spelt(aret'[t].req.email) = {}
                   THEN aret'[t].err = "ErrUserNotFound"
                   ELSE /\ aret'[t].err = "nil"
                        /\ aret'[t].user.Email = ToLower(aret'[t].req.email)
                        /\ aret'[t].user \in {authManager.Users[k] :
                                                k \in Spelt(aret'[t].req.email)}
             /\ Answers(t, "GetUser") => authManager' = authManager
             /\ Answers(t, "RemoveUser")
                => /\ Spelt(aret'[t].req.email) \cap DOMAIN authManager'.Users = {}
                   /\ \A k \in DOMAIN authManager.Users \ Spelt(aret'[t].req.email) :
                         /\ k \in DOMAIN authManager'.Users
                         /\ authManager'.Users[k] = authManager.Users[k]]_vars

\* A user registered as Bob@Test.com, written to the user list file and read
\* back at a restart with another salt, was removed as Bob@Test.com.
C28_Witness ==
    /\ aret[1].req.op = "RemoveUser" /\ aret[1].req.email = "Bob@Test.com"
    /\ aret[1].err = "nil"
    /\ aret[1].user.Email = "bob@test.com"
    /\ aret[1].user.HashedPass[2][3] = "a"
    /\ file.exists /\ "bob@test.com" \in DOMAIN file.users
    /\ authManager.Options.Salt # <<"c">>
    /\ authManager.Users = EmptyMap

\* ------------------------------------------------------------------- C29

\* Goroutine t's LoginUser request is made in this step.
LogsIn(t) ==
    /\ acalls' = acalls + 1
    /\ aret'[t].req.op = "LoginUser" \/ ath'[t].req.op = "LoginUser"

\* The e-mail and the password of a request are those of a registered user:
\* the digest of the password under the current salt is the stored one.
Authentic(req) ==
    /\ ToLower(req.email) \in DOMAIN authManager.Users
    /\ LET u == authManager.Users[ToLower(req.email)]
       IN  genHashedPass(u.Uuid, req.password, authManager.Options) = u.HashedPass

\* What LoginUser does before CreateToken: ErrUserNotFound for an e-mail
\* that is not registered, ErrAuthenticationFailed for a digest that differs,
\* the token table unchanged in both cases, and otherwise the call of
\* CreateToken for the registered user.
ChecksCredentials(t) ==
    LogsIn(t)
    => LET req == IF ath'[t].pc = "idle" THEN aret'[t].req ELSE ath'[t].req
       IN  /\ req.op = "LoginUser"
           /\ tokens' = tokens
           /\ IF ToLower(req.email) \notin DOMAIN authManager.Users
              THEN ath'[t].pc = "idle" /\ aret'[t].err = "ErrUserNotFound"
              ELSE IF ~Authentic(req)
                   THEN ath'[t].pc = "idle" /\ aret'[t].err = "ErrAuthenticationFailed"
                   ELSE /\ ath'[t].pc = "CreateToken"
                        /\ req.user = authManager.Users[ToLower(req.email)]

\* The CreateToken of a LoginUser request stores a new token for the user.
IssuesToken(t) ==
    /\ aret'[t].err = "nil"
    /\ aret'[t].data.Token \notin DOMAIN tokens
    /\ aret'[t].data.User = ath[t].req.user
    /\ tokens' = (aret'[t].data.Token :> aret'[t].data) @@ tokens

\* C29 as stated: LoginUser issues a token exactly when the e-mail is that of
\* a registered user and the digest of the password under the current salt
\* is the stored one, and fails with the token table unchanged otherwise.
C29_TokenIffAuthentic ==
    [][\A t \in Threads :
          /\ ChecksCredentials(t)
          /\ (InCreateToken(t) /\ ath[t].req.op = "LoginUser"
                /\ ath'[t].pc = "idle")
             => IssuesToken(t)]_vars

\* C29: LoginUser returns ErrUserNotFound for an e-mail that is not
\* registered and ErrAuthenticationFailed when the digest of the password
\* under the current salt is not the stored one, with the token table
\* unchanged; otherwise it calls CreateToken for the registered user, which
\* issues a token for it, or returns ErrTokenGeneration with the token table
\* unchanged when no random token could be generated.
C29_TokenIffAuthenticAndGenerated ==
    [][\A t \in Threads :
          /\ ChecksCredentials(t)
          /\ (InCreateToken(t) /\ ath[t].req.op = "LoginUser"
                /\ ath'[t].pc = "idle")
             => \/ IssuesToken(t)
                \/ aret'[t].err = "ErrTokenGeneration" /\ tokens' = tokens]_vars

\* A login as Bob@Test.com was answered with a token for the user registered
\* as bob@test.com.
C29_Witness ==
    /\ aret[1].req.op = "LoginUser" /\ aret[1].req.email = "Bob@Test.com"
    /\ aret[1].err = "nil"
    /\ "bob@test.com" \in DOMAIN authManager.Users
    /\ aret[1].data.User = authManager.Users["bob@test.com"]
    /\ aret[1].data.Token \in DOMAIN tokens
    /\ aret[1].data.User.HashedPass =
          genHashedPass(aret[1].data.User.Uuid, aret[1].req.password, authManager.Options)

\* ------------------------------------------------------------------- C30

\* The service is started again in this step.
Restarts == acalls' = acalls + 1 /\ aret'[1].req.op = "ImportFrom"

C31_ExportReportsFailure ==
    [][\A t \in Threads :
          (Answers(t, "ExportTo") /\ aret'[t].err = "nil")
          => file' = MarshalIndent(authManager')]_vars

\* A request for a key enters its handler in goroutine t.
Enters(t) == acalls' = acalls + 1 /\ ath'[t].pc # "idle" /\ ath'[t].req.op \in KeyHandlers

\* The header carries a token that was issued, is not revoked and has not
\* expired now.
ValidBearer(header) ==
    /\ Len(header) = 2
    /\ header[1] = "Bearer"
    /\ Standing(header[2])
    /\ issued[header[2]].data.Expiry >= clock

\* Goroutine t is in a request for a key whose context has no user.
Anonymous(t) ==
    ath[t].pc # "idle" /\ ath[t].req.op \in KeyHandlers /\ ath[t].req.user = ZeroUser

\* Goroutine t starts a call of the table.
StartsCall(t) ==
    /\ calls' = calls + 1
    /\ calls' \in {th'[t].call.id, ret'[t].call.id}

\* The call goroutine t has started.
Started(t) == IF th'[t].pc = "idle" THEN ret'[t].call ELSE th'[t].call

\* C32: no operation of the table is executed for a request whose bearer
\* token is missing, malformed, unknown, revoked or expired when the request
\* is resolved: the context of a request has a user exactly when its header
\* carries a valid token, and then the user of that token; every call of the
\* table is made by a handler whose context has a user, with that user; a
\* handler whose context has none returns ErrUnauthorized and the table stays
\* as it is.
C32_StoreCallsAuthorized ==
    [][\A t \in Threads :
          /\ Enters(t) =>
                IF ValidBearer(ath'[t].req.header)
                THEN ath'[t].req.user = issued[ath'[t].req.header[2]].data.User
                ELSE ath'[t].req.user = ZeroUser
          /\ StartsCall(t) =>
                /\ ath[t].req.op \in KeyHandlers
                /\ ~Anonymous(t)
                /\ Started(t).user = UserId(ath[t].req.user)
          /\ Anonymous(t) =>
                /\ Contents' = Contents
                /\ calls' = calls
                /\ th'[t] = th[t]
                /\ ret'[t] \in {ret[t], Result([NoCall EXCEPT !.op = ath[t].req.op],
                                               "ErrUnauthorized", ZeroDelivery, 0, FALSE)}
                /\ ath'[t].pc = "idle" => aret'[t].err = "ErrUnauthorized"]_vars

\* Bob has inserted k1 with his token, and a later request with that token,
\* expired by then, was answered ErrUnauthorized.
C32_Witness ==
    /\ IsPresent("k1")
    /\ lastWrite["k1"].user = 3
    /\ ath[1].pc = "idle"
    /\ aret[1].req.op \in KeyHandlers
    /\ aret[1].err = "ErrUnauthorized"
    /\ aret[1].req.header = <<"Bearer", 1>>
    /\ 1 \in DOMAIN issued
    /\ issued[1].data.Expiry < clock

\* Goroutine t reads the map in this step: the lookup of Get (GetValue,
\* DeleteValue), of LockAndDo, or len() in Length.
ReadsMap(t) ==
    \/ /\ calls' = calls + 1
       /\ calls' \in {th'[t].call.id, ret'[t].call.id}
       /\ Started(t).op \in {"GetValue", "DeleteValue", "Length"}
    \/ th[t].pc = "LockAndDo" /\ th'[t] # th[t]

\* C33: in no reachable state do two goroutines write the table's map at the
\* same time, every write of the map is made with the table lock held
\* exclusively, and no goroutine reads the map while another is writing it.
C33_NoConcurrentMapAccess ==
    /\ [](\A s \in Threads, t \in Threads : InWindow(s) /\ InWindow(t) => s = t)
    /\ [](\A t \in Threads : InWindow(t) => lock.writer = t)
    /\ [][\A t \in Threads : ReadsMap(t) => Writers(t) = {}]_vars

\* Goroutine t is in LockAndDo between its lookup of the key and the end of
\* its write-back.
Updating(t) == th[t].pc \in {"LockAndDoOperation", "LockAndDoWrite"}

\* C34: while an update is between its existence check and its write-back it
\* holds the table lock in shared mode and no insert or delete of any key
\* takes effect: its key stays in the table, the set of keys does not change,
\* and when the update returns with success its key was in the table before
\* the write-back and is in it afterwards.
C34_NoInsertOrDeleteDuringUpdate ==
    /\ [](\A t \in Threads :
             Updating(t) => /\ t \in lock.readers
                            /\ lock.writer = 0
                            /\ IsPresent(th[t].call.key))
    /\ [][\A t \in Threads :
             /\ Updating(t) => DOMAIN Contents' = DOMAIN Contents
             /\ (Updating(t) /\ Returns(t) /\ ret'[t].err = "nil")
                   => /\ IsPresent(ret'[t].call.key)
                      /\ ret'[t].call.key \in DOMAIN Contents']_vars

\* An update of k1 is at its write-back while another goroutine, which has
\* passed the permission check of DeleteValue, waits in Delete for the same
\* key.
C34_Witness ==
    \E t \in Threads, s \in Threads :
       /\ th[t].pc = "LockAndDoWrite"
       /\ th[s].pc = "Delete"
       /\ th[s].call.key = th[t].call.key

\* Goroutine t is in the mutation section of LockAndDo: its callback has run
\* and its write-back has not ended.
Mutating(t) == th[t].pc = "LockAndDoWrite"

\* C35: for each key at most one goroutine at a time is inside the mutation
\* section of LockAndDo: the copy of the entry every update works on carries
\* the lock object the key's entry has in the table, which is the one it got
\* at its insert, and the goroutine in the section holds that lock
\* exclusively.
C35_OneMutatorPerKey ==
    /\ [](\A s \in Threads, t \in Threads :
             (Mutating(s) /\ Mutating(t) /\ th[s].call.key = th[t].call.key) => s = t)
    /\ [](\A t \in Threads :
             /\ Updating(t) => th[t].entry.lock = Contents[th[t].call.key].lock
             /\ Mutating(t) => entryLock[th[t].entry.lock] = t)
    /\ [][\A k \in DOMAIN Contents \cap DOMAIN Contents' :
             Contents'[k].lock = Contents[k].lock]_vars

\* Two goroutines are inside the mutation section at the same time, one for
\* k1 and one for k2.
C35_Witness ==
    \E s \in Threads, t \in Threads :
       /\ Mutating(s) /\ th[s].call.key = "k1"
       /\ Mutating(t) /\ th[t].call.key = "k2"
       /\ entryLock[Contents["k1"].lock] = s
       /\ entryLock[Contents["k2"].lock] = t

\* Goroutine t holds none of the table lock, the entries' locks, the
\* registry's lock and the token manager's lock.
HoldsNothing(t) ==
    /\ HoldsNoLock(t)
    /\ ulLock.writer # t /\ t \notin ulLock.readers
    /\ tmLock.writer # t /\ t \notin tmLock.readers

\* Goroutine t is inside no operation of the table, the registry or the token
\* manager: each one it has called has returned.
Outside(t) == th[t].pc = "idle" /\ ath[t].pc \notin {"AddUserWrite", "CreateTokenWrite"}

\* C36: whenever an operation of the table, the registry or the token
\* manager has returned, by success or by an error, the goroutine that called
\* it holds none of the table lock, an entry's lock, the registry's lock and
\* the token manager's lock.
C36_NoLockHeldAfterReturn ==
    \A t \in Threads : Outside(t) => HoldsNothing(t)

\* One goroutine's insert has returned ErrKeyExists and one's registration
\* ErrUserAlreadyExists, both found under a lock that was taken for the check.
C36_Witness ==
    /\ \E t \in Threads : Outside(t) /\ ret[t].err = "ErrKeyExists"
    /\ \E t \in Threads : Outside(t) /\ aret[t].err = "ErrUserAlreadyExists"

\* C37: under fair scheduling every call of the table made by any of the
\* goroutines eventually returns.
C37_EveryCallReturns ==
    \A t \in Threads : (th[t].pc # "idle") ~> (th[t].pc = "idle")

\* Goroutine t takes the lock of its entry and runs its callback in this
\* step.
RunsCallback(t) == th[t].pc = "LockAndDoOperation" /\ th'[t] # th[t]

\* C38: the callback of LockAndDo receives the entry's content as it is in
\* the table at the moment the entry's lock is taken, so that the second of
\* two concurrent updates of a key works on the result of the first.
C38_CallbackSeesTable ==
    [][\A t \in Threads :
          RunsCallback(t) => th[t].entry.Delivery = Contents[th[t].call.key].Delivery]_vars

\* MaximumTimeReturn has answered the request of t with 504.
TimedOut(t) == ath[t].pc = "Timeout" /\ aret[t].err = "ErrOperationTimeout"

\* C39: once MaximumTimeReturn has answered a request with
\* ErrOperationTimeout, the operation of the table that the request's handler
\* wraps has no effect on the table.
C39_NoEffectAfterTimeout ==
    [][\A t \in Threads : (TimedOut(t) /\ th'[t] # th[t]) => Contents' = Contents]_vars

\* The goroutine MaximumTimeReturn started for the request of t has the
\* result of its handler and is at its send on chR or chErr.
Sending(t) == ath[t].pc \in {"Select", "Timeout"} /\ Handled(t)

\* C40: every goroutine MaximumTimeReturn starts terminates: once the handler
\* has returned in it, its send is received and it ends, be it before the
\* deadline or after it.
C40_GoroutineTerminates ==
    \A t \in Threads : Sending(t) ~> (ath[t].pc = "idle")

====
